---- MODULE Spec2Model ----
(***************************************************************************)
(* A model of the SSD1306 plugin (src/ssd1306/ssd1306.py): the Lcd driver  *)
(* (bus writer, window manager) and the LcdPlugin display scheduler.       *)
(*                                                                         *)
(* An Lcd object is a record; the driver's methods are operators from a    *)
(* record (and the outcome of each bus transaction) to the record after    *)
(* the call, the value returned and the transactions put on the bus.       *)
(*   SpecDrv   one driver instance called by one thread, small geometry.   *)
(***************************************************************************)
EXTENDS Integers, Sequences, FiniteSets, TLC

VARIABLES
    lcd,    \* the Lcd object: its fields
    dev,    \* the device as the bus left it: power, last transaction received
    bus,    \* the transactions of the most recent driver call, in order
    ret,    \* the most recent driver call and what it returned
    hist,   \* history: single data-byte writes since the last set_window
    plugin, \* the LcdPlugin object: its fields
    gv,     \* the host's status
    now,    \* time.time()
    run,    \* the scheduler thread (LcdPlugin.run): where it is, what is left
    stopper,\* the thread that calls stop(): where it is
    signals,\* display_signal calls between their insert and their notify
    cond,   \* the holder of _display_condition
    faulty, \* whether bus transactions can fail in this run
    ghost,  \* history: requests inserted and taken, the last status shown
    job     \* a call of the text layout with its arguments, and what it printed

drvVars == <<lcd, dev, bus, ret, hist>>
schedVars == <<plugin, gv, now, run, stopper, signals, cond, faulty, ghost>>
vars == <<lcd, dev, bus, ret, hist, plugin, gv, now, run, stopper, signals, cond, faulty, ghost, job>>

----------------------------------------------------------------------------
(* Bounds of the model *)
MaxWidth == 2       \* SpecDrv: screen widths 1..MaxWidth pixels
MaxBands == 2       \* SpecDrv: screens of 1..MaxBands row-bands
MaxChunks == 2      \* SpecDrv: data sequences of up to MaxChunks full chunks
MaxTail == 1        \* SpecDrv: ... plus 0..MaxTail bytes
MaxScale == 2       \* SpecDrv: write_line scales 1..MaxScale
MaxWrites == 4      \* SpecDrv: tracked single-byte writes after a set_window
MaxItems == 2       \* scheduler: display_signal requests in a run
MaxTime == 2        \* scheduler: the clock runs from 0 to MaxTime
MaxTimeout == 1     \* scheduler: idle timeouts 0..MaxTimeout seconds
MaxQueued == 3      \* SpecCustom: display_signal requests in a run
MaxChars == 2       \* SpecLine: characters of a text
MaxWords == 3       \* SpecBlock: words of a text
MaxWordLen == 2     \* SpecBlock: characters of a word
MaxBlockScale == 3  \* SpecBlock: min_text_size and max_text_size

(* No call of the text layout is under way *)
NoJob == [ fn |-> "none" ]

(* Program constants *)
CONTROL_BYTE == 0
DATA_BYTE == 64
LCD_CONTROL_PWR_OFF == 174
LCD_CONTROL_PWR_ON == 175
ChunkLen == 32
ClearCount == 32
ClearLen == 32
DefaultHwAddr == 120
DefaultPixelWidth == 128
DefaultPixelHeight == 64

Min(a, b) == IF a < b THEN a ELSE b

----------------------------------------------------------------------------
(* Lcd.__init__ *)
LcdNew(i2c_hw_addr, screen_pixel_width, screen_pixel_height) ==
    [ hw_write_addr |-> i2c_hw_addr \div 2,
      min_col_addr  |-> 0,
      max_col_addr  |-> screen_pixel_width - 1,
      min_row_addr  |-> 0,
      max_row_addr  |-> (screen_pixel_height + 7) \div 8 - 1,
      gmin_col      |-> 0,
      gmax_col      |-> screen_pixel_width - 1,
      gmin_row      |-> 0,
      gmax_row      |-> (screen_pixel_height + 7) \div 8 - 1,
      current_col   |-> 0,
      current_row   |-> 0,
      write_failure |-> FALSE,
      power_state   |-> FALSE,
      enabled       |-> TRUE ]

(* One bus transaction: the address, the command byte, what the bytes are    *)
(* ("pwr_on", "pwr_off", "window", "init", "data"), the chunk's offset in    *)
(* its sequence and its length, whether the call was a forced one, and       *)
(* whether the transaction succeeded (ok) or raised, and whether the         *)
(* failure message was printed (logged: it raised and _write_failure was     *)
(* not set, lines 245, 269 and 302).  l is the driver before the transaction. *)
Tx(l, cmd, what, off, n, force, ok) ==
    [ addr |-> l.hw_write_addr, cmd |-> cmd, what |-> what,
      off |-> off, n |-> n, force |-> force, ok |-> ok,
      logged |-> ~ok /\ ~l.write_failure ]

(* The result of a driver call *)
Res(l, status, txs) == [ lcd |-> l, status |-> status, txs |-> txs ]

(* Lcd._lcd_increment_current (the variant: the row is not wrapped) *)
lcd_increment_current_norowwrap(l, x) ==
    LET columns == l.gmax_col - l.gmin_col + 1
        col1    == l.current_col + x
    IN  [ l EXCEPT !.current_col = (col1 % columns) + l.gmin_col,
                   !.current_row = (col1 \div columns) + l.current_row ]

(* Lcd._lcd_increment_current *)
lcd_increment_current(l, x) ==
    LET columns == l.gmax_col - l.gmin_col + 1
        rows    == l.gmax_row - l.gmin_row + 1
        col1    == l.current_col + x
        row1    == (((col1 \div columns) + l.current_row) % rows) + l.gmin_row
    IN  [ l EXCEPT !.current_col = (col1 % columns) + l.gmin_col,
                   !.current_row = row1 ]

(* Lcd._write_control_byte (the variant: the enabled flag is not read) *)
write_control_byte_ungated(l, byte, force, ok) ==
    LET what == IF byte = LCD_CONTROL_PWR_ON THEN "pwr_on" ELSE "pwr_off" IN
    IF ok
    THEN Res(l, TRUE, << Tx(l, CONTROL_BYTE, what, 0, 1, force, TRUE) >>)
    ELSE Res([ l EXCEPT !.write_failure = TRUE ], FALSE,
             << Tx(l, CONTROL_BYTE, what, 0, 1, force, FALSE) >>)

(* Lcd._write_control_byte; ok: the bus transaction does not raise *)
write_control_byte(l, byte, force, ok) ==
    LET what == IF byte = LCD_CONTROL_PWR_ON THEN "pwr_on" ELSE "pwr_off" IN
    IF l.enabled \/ force
    THEN IF ok
         THEN Res(l, TRUE, << Tx(l, CONTROL_BYTE, what, 0, 1, force, TRUE) >>)
         ELSE Res([ l EXCEPT !.write_failure = TRUE ], FALSE,
                  << Tx(l, CONTROL_BYTE, what, 0, 1, force, FALSE) >>)
    ELSE Res(l, FALSE, << >>)

(* Lcd._write_data_byte *)
write_data_byte(l, ok) ==
    IF l.enabled
    THEN IF ok
         THEN Res(lcd_increment_current(l, 1), TRUE,
                  << Tx(l, DATA_BYTE, "data", 0, 1, FALSE, TRUE) >>)
         ELSE Res([ l EXCEPT !.write_failure = TRUE ], FALSE,
                  << Tx(l, DATA_BYTE, "data", 0, 1, FALSE, FALSE) >>)
    ELSE Res(l, FALSE, << >>)

(* range(0, len, n): the chunks' offsets *)
RECURSIVE range(_, _, _)
range(start, stop, step) ==
    IF start >= stop THEN << >> ELSE << start >> \o range(start + step, stop, step)

(* The variant of write_chunk that advances the cursor by the chunk's length *)
write_chunk_own_length(r, cmd, what, len, off, ok) ==
    LET n == Min(ChunkLen, len - off) IN
    IF ok
    THEN Res(IF cmd = DATA_BYTE THEN lcd_increment_current(r.lcd, n) ELSE r.lcd,
             TRUE,
             Append(r.txs, Tx(r.lcd, cmd, what, off, n, FALSE, TRUE)))
    ELSE Res([ r.lcd EXCEPT !.write_failure = TRUE ],
             r.status,
             Append(r.txs, Tx(r.lcd, cmd, what, off, n, FALSE, FALSE)))

(* The variant of write_chunk that does not record the failure *)
write_chunk_unflagged(r, cmd, what, len, off, ok) ==
    LET n == Min(ChunkLen, len - off) IN
    IF ok
    THEN Res(IF cmd = DATA_BYTE THEN lcd_increment_current(r.lcd, len) ELSE r.lcd,
             TRUE,
             Append(r.txs, Tx(r.lcd, cmd, what, off, n, FALSE, TRUE)))
    ELSE Res(r.lcd, r.status,
             Append(r.txs, Tx(r.lcd, cmd, what, off, n, FALSE, FALSE)))

(* One iteration of the loop of Lcd._write_sequence, on the chunk at `off` *)
write_chunk(r, cmd, what, len, off, ok) ==
    LET n == Min(ChunkLen, len - off) IN
    IF ok
    THEN Res(IF cmd = DATA_BYTE THEN lcd_increment_current(r.lcd, len) ELSE r.lcd,
             TRUE,
             Append(r.txs, Tx(r.lcd, cmd, what, off, n, FALSE, TRUE)))
    ELSE Res([ r.lcd EXCEPT !.write_failure = TRUE ],
             r.status,
             Append(r.txs, Tx(r.lcd, cmd, what, off, n, FALSE, FALSE)))

(* The loop of Lcd._write_sequence after its first i iterations.  (The     *)
(* result r of the iterations before is bound through a one-element set, so *)
(* that it is evaluated once.)                                               *)
RECURSIVE write_chunks(_, _, _, _, _, _, _)
write_chunks(l, cmd, what, len, offs, oks, i) ==
    IF i <= 0 THEN Res(l, FALSE, << >>)
    ELSE CHOOSE y \in { write_chunk(r, cmd, what, len, offs[i], oks[i]) :
                         r \in { write_chunks(l, cmd, what, len, offs, oks, i - 1) } } : TRUE

(* Lcd._write_sequence; oks[i]: the transaction of chunk i does not raise *)
write_sequence(l, cmd, what, len, oks) ==
    IF l.enabled
    THEN LET offs == range(0, len, ChunkLen) IN
         write_chunks(l, cmd, what, len, offs, oks, Len(offs))
    ELSE Res(l, FALSE, << >>)

(* The number of bus transactions of a sequence of len bytes *)
NumChunks(len) == Len(range(0, len, ChunkLen))

(* Lcd._lcd_set_print_area (the variant: the rows are not checked) *)
lcd_set_print_area_any_rows(l, min_col, max_col, min_row, max_row, oks) ==
    IF min_col < 0 \/ max_col > l.max_col_addr \/ max_col < min_col
    THEN Res(l, FALSE, << >>)
    ELSE LET r == write_sequence(l, CONTROL_BYTE, "window", 6, oks) IN
         Res([ r.lcd EXCEPT !.gmin_col = min_col, !.gmax_col = max_col,
                            !.gmin_row = min_row, !.gmax_row = max_row,
                            !.current_col = min_col, !.current_row = min_row ],
             r.status, r.txs)

(* Lcd._lcd_set_print_area *)
lcd_set_print_area(l, min_col, max_col, min_row, max_row, oks) ==
    IF min_col < 0 \/ max_col > l.max_col_addr \/ max_col < min_col
    THEN Res(l, FALSE, << >>)
    ELSE IF min_row < 0 \/ max_row > l.max_row_addr \/ max_row < min_row
    THEN Res(l, FALSE, << >>)
    ELSE LET r == write_sequence(l, CONTROL_BYTE, "window", 6, oks) IN
         Res([ r.lcd EXCEPT !.gmin_col = min_col, !.gmax_col = max_col,
                            !.gmin_row = min_row, !.gmax_row = max_row,
                            !.current_col = min_col, !.current_row = min_row ],
             r.status, r.txs)

(* Lcd.set_power *)
set_power(l, on, ok) ==
    LET r == write_control_byte(l, IF on THEN LCD_CONTROL_PWR_ON
                                         ELSE LCD_CONTROL_PWR_OFF, FALSE, ok) IN
    Res(IF r.status THEN [ r.lcd EXCEPT !.power_state = on ] ELSE r.lcd,
        r.status, r.txs)

(* Lcd._force_power_off *)
force_power_off(l, ok) ==
    LET r == write_control_byte(l, LCD_CONTROL_PWR_OFF, TRUE, ok) IN
    Res(IF r.status THEN [ r.lcd EXCEPT !.power_state = FALSE ] ELSE r.lcd,
        r.status, r.txs)

(* Lcd.disable (the variant: the enabled flag is not read) *)
disable_every_time(l, ok) ==
    LET r == force_power_off([ l EXCEPT !.enabled = FALSE ], ok) IN
    Res(r.lcd, TRUE, r.txs)

(* Lcd.disable *)
disable(l, ok) ==
    IF l.enabled
    THEN LET r == force_power_off([ l EXCEPT !.enabled = FALSE ], ok) IN
         Res(r.lcd, TRUE, r.txs)
    ELSE Res(l, TRUE, << >>)

(* The device after the transactions txs: the ones that succeeded reach it. *)
(* The init sequence starts with power-off (line 335).                      *)
Last(S) == CHOOSE i \in S : \A j \in S : j <= i

DevApply(d, txs) ==
    LET got == { i \in 1..Len(txs) : txs[i].ok }
        pwr == { i \in got : txs[i].what \in {"pwr_on", "pwr_off", "init"} }
    IN  [ last  |-> IF got = {} THEN d.last ELSE txs[Last(got)].what,
          forced |-> IF got = {} THEN d.forced ELSE txs[Last(got)].force,
          power |-> IF pwr = {} THEN d.power
                    ELSE IF txs[Last(pwr)].what = "pwr_on" THEN "on" ELSE "off" ]

(* The outcomes of the transactions a call makes beyond the first k *)
Rest(oks, k) == SubSeq(oks, k + 1, Len(oks))

(* Lcd._write_data_sequence *)
write_data_sequence(l, len, oks) == write_sequence(l, DATA_BYTE, "data", len, oks)

(* Lcd._lcd_set_print_area_max *)
lcd_set_print_area_max(l, oks) ==
    lcd_set_print_area(l, l.min_col_addr, l.max_col_addr,
                          l.min_row_addr, l.max_row_addr, oks)

(* Lcd.clear.  clear_step is one iteration of `for _ in range(0, 32)` on    *)
(* the result r of the iterations before it; clear_loop runs n of them.     *)
clear_step(r, oks) ==
    LET w == write_data_sequence(r.lcd, ClearLen, Rest(oks, Len(r.txs))) IN
    Res(w.lcd, r.status /\ w.status, r.txs \o w.txs)

RECURSIVE clear_loop(_, _, _)
clear_loop(r, oks, n) ==
    IF n <= 0 THEN r
    ELSE CHOOSE y \in { clear_loop(h, oks, n - 1) : h \in { clear_step(r, oks) } } : TRUE

clear(l, oks) ==
    LET a == lcd_set_print_area_max(l, oks) IN
    clear_loop(Res(a.lcd, TRUE, a.txs), oks, ClearCount)

(* Lcd.write_line, its bus side: the window of the line, then one data       *)
(* sequence per row-band of the window, each as long as the window is wide   *)
(* (lines 609-657; the bytes themselves are not modelled here).              *)
write_line_row(r, len, oks) ==
    LET w == write_data_sequence(r.lcd, len, Rest(oks, Len(r.txs))) IN
    Res(w.lcd, r.status, r.txs \o w.txs)

RECURSIVE write_line_rows(_, _, _, _, _)
write_line_rows(a, len, oks, k, i) ==
    IF i <= 0 THEN a
    ELSE CHOOSE y \in { write_line_row(r, len, oks) :
                         r \in { write_line_rows(a, len, oks, k, i - 1) } } : TRUE

write_line(l, row_start, text_size_multiplier, oks) ==
    IF row_start < l.min_row_addr \/ row_start > l.max_row_addr
    THEN Res(l, 0, << >>)
    ELSE LET row_end == Min(row_start + text_size_multiplier - 1, l.max_row_addr)
             a == lcd_set_print_area(l, l.min_col_addr, l.max_col_addr,
                                     row_start, row_end, oks)
             maxNumRows == a.lcd.gmax_row - a.lcd.gmin_row + 1
             maxNumCols == a.lcd.gmax_col - a.lcd.gmin_col + 1
         IN  write_line_rows(Res(a.lcd, 1, a.txs), maxNumCols, oks, maxNumRows, maxNumRows)

(* The number of transactions write_line attempts on an enabled driver *)
write_line_txs(l, row_start, text_size_multiplier) ==
    LET rows == Min(row_start + text_size_multiplier - 1, l.max_row_addr)
                - row_start + 1
    IN  1 + rows * NumChunks(l.max_col_addr - l.min_col_addr + 1)

----------------------------------------------------------------------------
(* Outcomes of the n bus transactions of one call: every pattern when       *)
(* n <= 3; for a longer call all succeed, all fail, or exactly one fails,    *)
(* the first, the second or the last.                                        *)
Outcomes(n) ==
    IF n <= 3 THEN [ 1..n -> BOOLEAN ]
    ELSE { [ i \in 1..n |-> TRUE ], [ i \in 1..n |-> FALSE ] }
         \cup { [ i \in 1..n |-> i # k ] : k \in { 1, 2, n } }

(* The coordinates tried on a device whose largest is max: one below the     *)
(* range to one above it                                                     *)
Coords(max) == -1..(max + 1)

(* The windows asked for, as <<<<min_col, max_col>>, <<min_row, max_row>>>>: *)
(* every valid window; every invalid column pair with the full row range;    *)
(* every invalid row pair with the full column range; and one window         *)
(* invalid in both.                                                           *)
ValidPairs(max) == { p \in Coords(max) \X Coords(max) : 0 <= p[1] /\ p[1] <= p[2] /\ p[2] <= max }
InvalidPairs(max) == (Coords(max) \X Coords(max)) \ ValidPairs(max)

ValidWindows(l) == ValidPairs(l.max_col_addr) \X ValidPairs(l.max_row_addr)

WindowArgs(l) ==
    ValidWindows(l)
    \cup (InvalidPairs(l.max_col_addr) \X { << 0, l.max_row_addr >> })
    \cup ({ << 0, l.max_col_addr >> } \X InvalidPairs(l.max_row_addr))
    \cup { << << -1, l.max_col_addr + 1 >>, << -1, l.max_row_addr + 1 >> >> }

(* The lengths of the sequences written *)
SeqLens == { c * ChunkLen + d : c \in 0..MaxChunks, d \in 0..MaxTail }

(* The device before the first transaction *)
DevInit == [ power |-> "off", last |-> "none", forced |-> FALSE ]

(* A driver call ends: the record, the bus, the device and the value returned *)
Returns(op, r) ==
    /\ lcd' = r.lcd
    /\ bus' = r.txs
    /\ dev' = DevApply(dev, r.txs)
    /\ ret' = [ op |-> op, status |-> r.status ]

----------------------------------------------------------------------------
(* The display scheduler: class LcdPlugin *)

(* Lcd.write_initialization_sequence: the init sequence (25 control bytes,  *)
(* one transaction), clear(), set_power(on=True)                             *)
InitSeqLen == 25

write_control_sequence(l, what, len, oks) == write_sequence(l, CONTROL_BYTE, what, len, oks)

write_initialization_sequence(l, oks) ==
    LET a == write_control_sequence(l, "init", InitSeqLen, oks)
        c == clear(a.lcd, Rest(oks, Len(a.txs)))
        p == set_power(c.lcd, TRUE, oks[Len(oks)])
    IN  Res(p.lcd, TRUE, a.txs \o c.txs \o p.txs)

(* The number of transactions of the initialization *)
InitTxs == NumChunks(InitSeqLen) + 1 + ClearCount * NumChunks(ClearLen) + 1

(* The width in pixels write_block assumes for a text whose words have the  *)
(* lengths `words` (lines 526-536): 6 per character, 6 per space             *)
RECURSIVE totalSize(_)
totalSize(words) ==
    IF words = << >> THEN 0
    ELSE 6 * Head(words) + (IF Len(words) > 1 THEN 6 ELSE 0) + totalSize(Tail(words))

(* len(str) of a text whose words have the lengths `words` *)
RECURSIVE strLen(_)
strLen(words) ==
    IF words = << >> THEN 0
    ELSE Head(words) + (IF Len(words) > 1 THEN 1 ELSE 0) + strLen(Tail(words))

(* Lcd.write_block, lines 523-543: the rejected call, and the text written  *)
(* as one line at max_text_size.  (The shrinking loop of lines 544-585 is    *)
(* not reached by the texts of this model.)                                   *)
write_block(l, words, row_start, min_text_size, max_text_size, oks) ==
    CASE min_text_size > max_text_size \/ min_text_size <= 0 \/ max_text_size <= 0
           -> Res(l, 0, << >>)
      [] /\ ~(min_text_size > max_text_size \/ min_text_size <= 0 \/ max_text_size <= 0)
         /\ \/ totalSize(words) * max_text_size <= l.max_col_addr - l.min_col_addr + 1
            \/ min_text_size = max_text_size
            \/ strLen(words) <= 0
           -> write_line(l, row_start, max_text_size, oks)

(* idle_entry_time = None *)
NoTime == -1

(* LcdPlugin.__init__ with _reset_lcd_state and the settings loaded by      *)
(* initialize(); the fields of the plugin object                             *)
PluginNew(idle_timeout) ==
    [ running                 |-> TRUE,
      custom_display_queue    |-> << >>,
      displaying_custom       |-> FALSE,
      custom_display_canceled |-> FALSE,
      idled                   |-> FALSE,
      idle_entry_time         |-> NoTime,
      last_write              |-> "",
      last_sub_val            |-> "",
      idle_timeout_seconds    |-> idle_timeout ]

(* LcdPlugin._reset_lcd_state *)
reset_lcd_state(p) ==
    [ p EXCEPT !.last_write = "", !.last_sub_val = "",
               !.idle_entry_time = NoTime, !.idled = FALSE ]

(* LcdPlugin._wake_display (the variant: it also forgets what is shown) *)
wake_display_forgetful(p, l, t, ok) ==
    IF p.idled
    THEN [ plg |-> [ p EXCEPT !.idle_entry_time = t, !.idled = FALSE,
                              !.last_write = "", !.last_sub_val = "" ],
           res |-> set_power(l, TRUE, ok) ]
    ELSE [ plg |-> [ p EXCEPT !.idle_entry_time = t ],
           res |-> Res(l, TRUE, << >>) ]

(* LcdPlugin._wake_display at time t, the whole call under _idle_lock *)
wake_display(p, l, t, ok) ==
    IF p.idled
    THEN [ plg |-> [ p EXCEPT !.idle_entry_time = t, !.idled = FALSE ],
           res |-> set_power(l, TRUE, ok) ]
    ELSE [ plg |-> [ p EXCEPT !.idle_entry_time = t ],
           res |-> Res(l, TRUE, << >>) ]

(* LcdPlugin._display_idled (the variant: the power is left on) *)
display_idled_flag_only(p, l, ok) ==
    [ plg |-> [ p EXCEPT !.idled = TRUE ], res |-> Res(l, TRUE, << >>) ]

(* LcdPlugin._display_idled *)
display_idled(p, l, ok) ==
    [ plg |-> [ p EXCEPT !.idled = TRUE ], res |-> set_power(l, FALSE, ok) ]

(* The test of lines 968-973 at time t (the variant: not strictly later) *)
idle_due_at_timeout(p, t) ==
    /\ ~p.idled
    /\ p.idle_entry_time # NoTime
    /\ p.idle_timeout_seconds > 0
    /\ (t - p.idle_entry_time) >= p.idle_timeout_seconds

(* The test of lines 968-973 at time t *)
idle_due(p, t) ==
    /\ ~p.idled
    /\ p.idle_entry_time # NoTime
    /\ p.idle_timeout_seconds > 0
    /\ (t - p.idle_entry_time) > p.idle_timeout_seconds

(* The idle check of _display_normal, lines 963-976, under _idle_lock *)
idle_check(p, l, t, ok) ==
    IF idle_due(p, t) THEN display_idled(p, l, ok)
    ELSE [ plg |-> p, res |-> Res(l, TRUE, << >>) ]

----------------------------------------------------------------------------
(* The host status (module gv) as _display_normal reads it.  gv.pon = None  *)
(* is PonNone; ps[i] is <<program, duration>> of station i, srvals[i] its    *)
(* valve; sd's entries are fields.  `/` on integers is the integer division  *)
(* of the Python 2 the plugin was written for.                                *)
PonNone == 0
RunOnce == 98
ManualMode == 99

Host(pon, ps, srvals, mas, en, mm, rd, rdst, wl, tm_min) ==
    [ pon |-> pon, ps |-> ps, srvals |-> srvals, mas |-> mas, en |-> en,
      mm |-> mm, rd |-> rd, rdst |-> rdst, now |-> 0, wl |-> wl,
      tm_hour |-> 13, tm_min |-> tm_min, tf |-> FALSE ]

(* lines 807-814 *)
prg_of(g) ==
    IF g.pon = PonNone THEN "Idle"
    ELSE IF g.pon = RunOnce THEN "Run-once"
    ELSE IF g.pon = ManualMode THEN "Manual Mode"
    ELSE ToString(g.pon)

(* The loop of lines 821-834 after its first n iterations.  `words` are the *)
(* lengths of the words of s.                                                 *)
RECURSIVE stations(_, _)
stations(g, n) ==
    IF n <= 0
    THEN [ programRunning |-> FALSE, s |-> "", words |-> << >>, stationDuration |-> 0 ]
    ELSE LET r  == stations(g, n - 1)
             p  == g.ps[n][1]
             d  == g.ps[n][2]
             pr == r.programRunning \/ p # 0
         IN  IF n # g.mas /\ g.srvals[n] # 0
             THEN [ programRunning  |-> pr,
                    s               |-> IF r.s = "" THEN ToString(n)
                                        ELSE r.s \o " " \o ToString(n),
                    words           |-> Append(r.words, Len(ToString(n))),
                    stationDuration |-> IF d > r.stationDuration THEN d
                                        ELSE r.stationDuration ]
             ELSE [ r EXCEPT !.programRunning = pr ]

(* lines 873-894: the sub-value of the stations screen *)
duration_string(g, stationDuration) ==
    IF g.pon = ManualMode /\ stationDuration <= 0 THEN "ON"
    ELSE LET stationSec == stationDuration % 60
             minutes    == stationDuration \div 60
             stationHrs == minutes \div 60
             stationMin == minutes % 60
             mmss == ToString(stationMin \div 10) \o ToString(stationMin % 10) \o ":"
                     \o ToString(stationSec \div 10) \o ToString(stationSec % 10)
         IN  IF stationHrs > 0
             THEN ToString(stationHrs \div 10) \o ToString(stationHrs % 10) \o ":" \o mmss
             ELSE mmss

(* LcdPlugin._get_time_string *)
get_time_string(g) ==
    LET h12  == IF g.tm_hour = 0 THEN 12
                ELSE IF g.tm_hour > 12 THEN g.tm_hour - 12 ELSE g.tm_hour
        isPm == g.tm_hour >= 12
        timeHours  == IF g.tf THEN g.tm_hour ELSE h12
        ampmString == IF g.tf THEN "" ELSE IF isPm THEN " PM" ELSE " AM"
    IN  ToString(timeHours) \o ":" \o ToString(g.tm_min \div 10)
        \o ToString(g.tm_min % 10) \o ampmString

(* line 925 *)
remainingHrs(g) == ((g.rdst - g.now) \div 60) \div 60

----------------------------------------------------------------------------
(* What the scheduler thread has still to do in the tick it is in: the      *)
(* calls of _display_normal or _display_custom in program order.  An entry   *)
(* is a driver call (write_line, write_block, clear), a call of              *)
(* _wake_display, the idle check, or an assignment to a field that only the  *)
(* scheduler thread uses.                                                     *)
Entry(op, txt, words, row_start, min_text_size, max_text_size) ==
    [ op |-> op, txt |-> txt, words |-> words, row_start |-> row_start,
      min_text_size |-> min_text_size, max_text_size |-> max_text_size ]

WL(txt, row_start, size) == Entry("write_line", txt, << >>, row_start, size, size)
WB(txt, words, row_start, min_text_size, max_text_size) ==
    Entry("write_block", txt, words, row_start, min_text_size, max_text_size)
CLR == Entry("clear", "", << >>, 0, 0, 0)
WAKE == Entry("wake_display", "", << >>, 0, 0, 0)
IDLE == Entry("idle_check", "", << >>, 0, 0, 0)
LW(v) == Entry("last_write", v, << >>, 0, 0, 0)
SV(v) == Entry("last_sub_val", v, << >>, 0, 0, 0)
SHOWN == Entry("displaying_custom", "", << >>, 0, 0, 0)
UNCANCEL == Entry("custom_display_canceled", "", << >>, 0, 0, 0)

DriverOps == { "write_line", "write_block", "clear" }
LocalOps == { "last_write", "last_sub_val", "displaying_custom", "custom_display_canceled" }

(* The variant of main_part that never wakes the display *)
main_part_unwoken(lw, aboutToWrite, wake, lines, reset_sub) ==
    IF lw # aboutToWrite
    THEN lines \o << LW(aboutToWrite) >>
         \o (IF reset_sub THEN << SV("") >> ELSE << >>)
    ELSE << >>

(* The main content of a screen: written, with a wake-up first in the idle  *)
(* branches, when it differs from last_write                                  *)
main_part(lw, aboutToWrite, wake, lines, reset_sub) ==
    IF lw # aboutToWrite
    THEN (IF wake THEN << WAKE >> ELSE << >>) \o lines \o << LW(aboutToWrite) >>
         \o (IF reset_sub THEN << SV("") >> ELSE << >>)
    ELSE << >>

(* The variant of sub_part that does not compare with last_sub_val *)
sub_part_always(sv, aboutToWrite, txt) == << WL(txt, 6, 2), SV(aboutToWrite) >>

(* The sub-value of a screen: written when it differs from last_sub_val *)
sub_part(sv, aboutToWrite, txt) ==
    IF sv # aboutToWrite THEN << WL(txt, 6, 2), SV(aboutToWrite) >> ELSE << >>

(* lines 835-897: a program is on *)
running_plan(lw, sv, g) ==
    LET st == stations(g, Len(g.ps))
        prg == prg_of(g)
    IN  IF st.s = ""
        THEN IF st.programRunning
             THEN IF g.pon = RunOnce
                  THEN main_part(lw, "RunningRun-onceProgram", FALSE,
                         << WL("Running", 0, 2), WL("", 2, 1), WL("Run-once", 3, 2),
                            WL("", 5, 1), WL("Program", 6, 2) >>, FALSE)
                  ELSE IF g.pon = ManualMode
                  THEN main_part(lw, "ManualMode", FALSE,
                         << WL("", 0, 1), WL("Manual", 1, 2), WL("", 3, 1),
                            WL("Mode", 4, 2), WL("", 6, 2) >>, FALSE)
                  ELSE main_part(lw, "RunningProgram" \o prg, FALSE,
                         << WL("Running", 0, 2), WL("", 2, 1), WL("Program", 3, 2),
                            WL("", 5, 1), WL(prg, 6, 2) >>, FALSE)
             ELSE << >>
        ELSE LET aboutToWrite == duration_string(g, st.stationDuration) IN
             main_part(lw, st.s, FALSE,
                       << WB(st.s, st.words, 0, 1, 5), WL(" ", 5, 1) >>, TRUE)
             \o sub_part(IF lw # st.s THEN "" ELSE sv, aboutToWrite, aboutToWrite)

(* lines 899-961: nothing is on *)
idle_plan(lw, sv, g) ==
    IF ~g.en
    THEN main_part(lw, "OFF", TRUE, << WL("OFF", 0, 3), WL("", 3, 5) >>, FALSE)
    ELSE IF g.mm
    THEN main_part(lw, "IdleManualMode", TRUE,
                   << WL("Idle", 0, 3), WL("", 3, 1), WL("Manual", 4, 2),
                      WL("Mode", 6, 2) >>, FALSE)
    ELSE IF g.rd
    THEN LET hrs == remainingHrs(g) IN
         main_part(lw, "RainDelay", TRUE,
                   << WL("Rain", 0, 2), WL("", 2, 1), WL("Delay", 3, 2),
                      WL("", 5, 1) >>, TRUE)
         \o sub_part(IF lw # "RainDelay" THEN "" ELSE sv, ToString(hrs),
                     IF hrs < 1 THEN "<1 hr"
                     ELSE IF hrs = 1 THEN "1 hr" ELSE ToString(hrs) \o " hrs")
    ELSE IF g.wl < 100
    THEN LET aboutToWrite == "IdleWaterLevel" \o ToString(g.wl) IN
         main_part(lw, aboutToWrite, TRUE,
                   << WL("Idle", 0, 3), WL(ToString(g.wl) \o "%", 3, 2),
                      WL("", 5, 1) >>, TRUE)
         \o sub_part(IF lw # aboutToWrite THEN "" ELSE sv,
                     get_time_string(g), get_time_string(g))
    ELSE main_part(lw, "Idle", TRUE, << WL("Idle", 0, 3), WL("", 3, 3) >>, TRUE)
         \o sub_part(IF lw # "Idle" THEN "" ELSE sv,
                     get_time_string(g), get_time_string(g))

(* LcdPlugin._display_normal after lines 802-805, on the host status g:     *)
(* the calls it makes, in order.  p is the plugin after lines 802-805.       *)
display_normal(p, after_custom, g) ==
    LET st  == stations(g, Len(g.ps))
        on  == prg_of(g) # "Idle"
        lie == on /\ st.s = "" /\ ~st.programRunning
    IN  (IF after_custom THEN << WAKE >> ELSE << >>)
        \o (IF on THEN << WAKE >> \o running_plan(p.last_write, p.last_sub_val, g)
            ELSE << >>)
        \o (IF ~on \/ lie
            THEN idle_plan(p.last_write, p.last_sub_val, g) \o << IDLE >>
            ELSE << >>)

(* lines 802-805 (the variant: the caches are kept) *)
leave_custom_keeps_caches(p) ==
    IF p.displaying_custom
    THEN [ p EXCEPT !.displaying_custom = FALSE, !.custom_display_canceled = FALSE ]
    ELSE p

(* lines 802-805 *)
leave_custom(p) ==
    IF p.displaying_custom
    THEN [ reset_lcd_state(p) EXCEPT !.displaying_custom = FALSE,
                                     !.custom_display_canceled = FALSE ]
    ELSE p

(* A request of display_signal: the keywords _display_custom reads; id is   *)
(* the request's number in the order of the insertions.                       *)
Item(id, cancel, append, delay, words, row_start, min_text_size, max_text_size) ==
    [ id |-> id, cancel |-> cancel, append |-> append, delay |-> delay,
      words |-> words, row_start |-> row_start,
      min_text_size |-> min_text_size, max_text_size |-> max_text_size ]

(* self._custom_display_queue.insert(0, kw) *)
queue_insert(q, item) == << item >> \o q

(* The variant of pop() that takes the most recent request *)
queue_pop_front(q) == [ item |-> q[1], rest |-> SubSeq(q, 2, Len(q)) ]

(* self._custom_display_queue.pop() *)
queue_pop(q) == [ item |-> q[Len(q)], rest |-> SubSeq(q, 1, Len(q) - 1) ]

(* The variant of display_custom_item that honours append although no      *)
(* custom content is on the screen                                            *)
display_custom_item_unforced(p, item) ==
    LET append == IF p.custom_display_canceled THEN FALSE ELSE item.append
    IN  (IF ~append THEN << CLR >> ELSE << >>)
        \o << WB("", item.words, item.row_start, item.min_text_size, item.max_text_size),
              SHOWN, WAKE, UNCANCEL >>

(* lines 990-1012 for a request that is not a cancel: the calls, in order *)
display_custom_item(p, item) ==
    LET append == IF ~p.displaying_custom \/ p.custom_display_canceled
                  THEN FALSE ELSE item.append
    IN  (IF ~append THEN << CLR >> ELSE << >>)
        \o << WB("", item.words, item.row_start, item.min_text_size, item.max_text_size),
              SHOWN, WAKE, UNCANCEL >>

(* An assignment to a field of the scheduler thread's own *)
local(p, e) ==
    CASE e.op = "last_write"   -> [ p EXCEPT !.last_write = e.txt ]
      [] e.op = "last_sub_val" -> [ p EXCEPT !.last_sub_val = e.txt ]
      [] e.op = "displaying_custom" -> [ p EXCEPT !.displaying_custom = TRUE ]
      [] e.op = "custom_display_canceled" -> [ p EXCEPT !.custom_display_canceled = FALSE ]

(* The assignments at the head of todo are made in the step of the call     *)
(* before them: no other thread reads or writes these fields.                 *)
RECURSIVE settle(_, _)
settle(p, todo) ==
    IF todo # << >> /\ Head(todo).op \in LocalOps
    THEN settle(local(p, Head(todo)), Tail(todo))
    ELSE [ plg |-> p, todo |-> todo ]

(* The number of transactions a driver call of todo attempts *)
call_txs(l, e) ==
    CASE e.op = "clear" -> 1 + ClearCount * NumChunks(ClearLen)
      [] e.op = "write_line" -> write_line_txs(l, e.row_start, e.max_text_size)
      [] e.op = "write_block" -> write_line_txs(l, e.row_start, e.max_text_size)

(* The driver call of an entry of todo *)
call(l, e, oks) ==
    CASE e.op = "clear" -> clear(l, oks)
      [] e.op = "write_line" -> write_line(l, e.row_start, e.max_text_size, oks)
      [] e.op = "write_block" ->
            write_block(l, e.words, e.row_start, e.min_text_size, e.max_text_size, oks)

----------------------------------------------------------------------------
(* The scheduler and the threads around it.                                  *)
(* A step is a stretch of one thread's code that no other thread can         *)
(* observe in part: a call made under _idle_lock or under the driver's       *)
(* _write_lock as a whole, one access to a shared field, or a stretch that   *)
(* uses the thread's own data only.  The scheduler thread holds              *)
(* _display_condition from RunStart on, except inside wait().                *)

IdleHost == Host(PonNone, << <<0, 0>>, <<0, 0>> >>, << 0, 0 >>, 0,
                 TRUE, FALSE, FALSE, 0, 100, 5)

(* The host statuses of SpecSched: idle, idle a minute later, station 1 on  *)
SchedHosts ==
    { IdleHost,
      [ IdleHost EXCEPT !.tm_min = 6 ],
      [ IdleHost EXCEPT !.pon = 1, !.ps = << <<1, 65>>, <<0, 0>> >>,
                        !.srvals = << 1, 0 >> ] }

(* The requests of display_signal: a cancel, a text shown for 2 s, a text   *)
(* appended with delay 0                                                      *)
ItemKinds(id) ==
    { Item(id, TRUE, FALSE, 1, << 1 >>, 0, 1, 1),
      Item(id, FALSE, FALSE, 2, << 1 >>, 0, 1, 1),
      Item(id, FALSE, TRUE, 0, << 1 >>, 2, 1, 2) }

NoSnap == [ valid |-> FALSE, gv |-> IdleHost ]

RunNew == [ pc |-> "start", mode |-> "none", todo |-> << >>, wait_time |-> 1 ]

GhostNew ==
    [ enq |-> 0, popped |-> 0, tickPops |-> 0, tickCancel |-> FALSE,
      snap |-> NoSnap, repeat |-> FALSE, early |-> FALSE ]

(* The outcomes of the n transactions a call of the scheduler attempts: all *)
(* succeed or, on a faulty bus, all fail; a disabled driver attempts none      *)
OutcomesFor(l, n) ==
    IF l.enabled /\ faulty THEN { [ i \in 1..n |-> TRUE ], [ i \in 1..n |-> FALSE ] }
    ELSE { [ i \in 1..n |-> TRUE ] }

(* A call whose value the scheduler does not read (lines 840-1009) *)
unread(r) == Res(r.lcd, TRUE, r.txs)

(* A step that calls set_power if `called` *)
Called(called, op, r) ==
    IF called THEN Returns(op, r) ELSE UNCHANGED <<lcd, dev, bus, ret>>

(* line 1053, the loop's test (the variant: the flag is not read) *)
while_running_forever(p) == TRUE

(* line 1053, the loop's test: while self._running *)
while_running(p) == p.running

(* notify_all() on _display_condition: a thread in wait() leaves it *)
notify_all(r) == IF r.pc = "waiting" THEN [ r EXCEPT !.pc = "reacquire" ] ELSE r

(* History: notify_all() ends the wait that follows a custom text with a    *)
(* delay above 0 before its timeout (ghost.early, until the loop's next      *)
(* branch at line 1055)                                                       *)
notified(g, r) ==
    [ g EXCEPT !.early = @ \/ (r.pc = "waiting" /\ r.mode = "custom" /\ r.wait_time > 0) ]

(* The scheduler thread after a call of its tick, with `todo` left *)
advance(r, todo) ==
    [ r EXCEPT !.todo = todo,
               !.pc = IF todo # << >> THEN "exec"
                      ELSE IF r.mode = "custom" THEN "cwhile" ELSE "checkrun" ]

(* The plugin as the host starts it: __init__, initialize(), start() *)
InitPlugin ==
    /\ \E idle_timeout \in 0..MaxTimeout : plugin = PluginNew(idle_timeout)
    /\ faulty \in BOOLEAN
    /\ \E oks \in { [ i \in 1..InitTxs |-> TRUE ], [ i \in 1..InitTxs |-> FALSE ] } :
         LET r == write_initialization_sequence(
                      LcdNew(DefaultHwAddr, DefaultPixelWidth, DefaultPixelHeight), oks)
         IN  /\ lcd = r.lcd
             /\ dev = DevApply(DevInit, r.txs)
             /\ bus = r.txs
    /\ ret = [ op |-> "initialize", status |-> TRUE ]
    /\ hist = [ track |-> FALSE, n |-> 0 ]
    /\ job = NoJob
    /\ lcd.write_failure => faulty
    /\ now = 0
    /\ run = RunNew
    /\ stopper = "idle"
    /\ signals = 0
    /\ cond = "free"
    /\ ghost = GhostNew

InitSched == InitPlugin /\ gv = IdleHost

(* run(), line 1051: acquire _display_condition *)
RunStart ==
    /\ run.pc = "start" /\ cond = "free"
    /\ cond' = "run"
    /\ run' = [ run EXCEPT !.pc = "loop" ]
    /\ UNCHANGED <<lcd, dev, bus, ret, hist, job, faulty, plugin, gv, now, stopper, signals, ghost>>

(* line 1053: while self._running; the loop's exit releases the condition *)
RunLoop ==
    /\ run.pc = "loop"
    /\ IF while_running(plugin)
       THEN /\ run' = [ run EXCEPT !.pc = "branch", !.wait_time = 1, !.mode = "none" ]
            /\ cond' = cond
       ELSE /\ run' = [ run EXCEPT !.pc = "done", !.mode = "none" ]
            /\ cond' = "free"
    /\ ghost' = [ ghost EXCEPT !.tickPops = 0, !.tickCancel = FALSE, !.repeat = FALSE ]
    /\ UNCHANGED <<lcd, dev, bus, ret, hist, job, faulty, plugin, gv, now, stopper, signals>>

(* line 1055: if self._custom_display_queue *)
RunBranch ==
    /\ run.pc = "branch"
    /\ run' = [ run EXCEPT !.pc = IF plugin.custom_display_queue # << >>
                                  THEN "cwhile" ELSE "normal",
                           !.mode = IF plugin.custom_display_queue # << >>
                                    THEN "custom" ELSE "normal" ]
    /\ ghost' = [ ghost EXCEPT !.early = FALSE ]
    /\ UNCHANGED <<lcd, dev, bus, ret, hist, job, faulty, plugin, gv, now, stopper, signals, cond>>

(* _display_normal up to its first call: lines 802-805, the host status read *)
RunNormal ==
    /\ run.pc = "normal"
    /\ LET p1 == leave_custom(plugin)
           st == settle(p1, display_normal(p1, plugin.displaying_custom, gv))
       IN  /\ plugin' = st.plg
           /\ run' = advance(run, st.todo)
    /\ ghost' = [ ghost EXCEPT !.snap = [ valid |-> TRUE, gv |-> gv ],
                               !.repeat = ghost.snap.valid /\ ghost.snap.gv = gv ]
    /\ UNCHANGED <<lcd, dev, bus, ret, hist, job, faulty, gv, now, stopper, signals, cond>>

(* line 982: while self._custom_display_queue; line 1020: return delay *)
RunWhile ==
    /\ run.pc = "cwhile"
    /\ run' = [ run EXCEPT !.pc = IF plugin.custom_display_queue # << >>
                                  THEN "pop" ELSE "checkrun" ]
    /\ UNCHANGED <<lcd, dev, bus, ret, hist, job, faulty, plugin, gv, now, stopper, signals, cond, ghost>>

(* lines 983-1005 and 1014-1019: take a request under _custom_display_lock; *)
(* pop() of an empty list raises and ends the thread                          *)
RunPop ==
    /\ run.pc = "pop"
    /\ IF plugin.custom_display_queue = << >>
       THEN /\ run' = [ run EXCEPT !.pc = "raised" ]
            /\ cond' = "free"
            /\ UNCHANGED <<plugin, ghost>>
       ELSE LET q == queue_pop(plugin.custom_display_queue)
                p1 == [ plugin EXCEPT !.custom_display_queue = q.rest ]
            IN  /\ IF q.item.cancel
                   THEN /\ plugin' = [ p1 EXCEPT !.custom_display_canceled = TRUE ]
                        /\ run' = [ run EXCEPT !.pc = "cwhile", !.wait_time = 0 ]
                   ELSE /\ plugin' = p1
                        /\ run' = [ advance(run, display_custom_item(p1, q.item))
                                    EXCEPT !.wait_time = q.item.delay ]
                /\ ghost' = [ ghost EXCEPT !.popped = q.item.id,
                                           !.tickPops = @ + 1,
                                           !.tickCancel = @ \/ q.item.cancel,
                                           !.snap = NoSnap ]
                /\ cond' = cond
    /\ UNCHANGED <<lcd, dev, bus, ret, hist, job, faulty, gv, now, stopper, signals>>

(* A driver call of the tick: clear, write_block or write_line *)
RunCall ==
    /\ run.pc = "exec" /\ Head(run.todo).op \in DriverOps
    /\ \E oks \in OutcomesFor(lcd, call_txs(lcd, Head(run.todo))) :
         LET st == settle(plugin, Tail(run.todo)) IN
         /\ Returns(Head(run.todo).op, unread(call(lcd, Head(run.todo), oks)))
         /\ plugin' = st.plg
         /\ run' = advance(run, st.todo)
    /\ UNCHANGED <<hist, job, faulty, gv, now, stopper, signals, cond, ghost>>

(* _wake_display called by the tick *)
RunWake ==
    /\ run.pc = "exec" /\ Head(run.todo).op = "wake_display"
    /\ \E ok \in OutcomesFor(lcd, 1) :
         LET w  == wake_display(plugin, lcd, now, ok[1])
             st == settle(w.plg, Tail(run.todo))
         IN  /\ Called(plugin.idled, "wake_display", w.res)
             /\ plugin' = st.plg
             /\ run' = advance(run, st.todo)
    /\ UNCHANGED <<hist, job, faulty, gv, now, stopper, signals, cond, ghost>>

(* lines 963-976: the idle check that ends an idle status tick *)
RunIdleCheck ==
    /\ run.pc = "exec" /\ Head(run.todo).op = "idle_check"
    /\ \E ok \in OutcomesFor(lcd, 1) :
         LET w  == idle_check(plugin, lcd, now, ok[1])
             st == settle(w.plg, Tail(run.todo))
         IN  /\ Called(idle_due(plugin, now), "idle_check", w.res)
             /\ plugin' = st.plg
             /\ run' = advance(run, st.todo)
    /\ UNCHANGED <<hist, job, faulty, gv, now, stopper, signals, cond, ghost>>

(* lines 1061-1062: if self._running: wait(wait_time), which releases the   *)
(* condition                                                                  *)
RunCheck ==
    /\ run.pc = "checkrun"
    /\ IF plugin.running
       THEN /\ run' = [ run EXCEPT !.pc = "waiting" ]
            /\ cond' = "free"
       ELSE /\ run' = [ run EXCEPT !.pc = "loop" ]
            /\ cond' = cond
    /\ UNCHANGED <<lcd, dev, bus, ret, hist, job, faulty, plugin, gv, now, stopper, signals, ghost>>

(* wait(wait_time) times out *)
RunTimeout ==
    /\ run.pc = "waiting"
    /\ run' = [ run EXCEPT !.pc = "reacquire" ]
    /\ UNCHANGED <<lcd, dev, bus, ret, hist, job, faulty, plugin, gv, now, stopper, signals, cond, ghost>>

(* wait() returns with the condition held again *)
RunReacquire ==
    /\ run.pc = "reacquire" /\ cond = "free"
    /\ cond' = "run"
    /\ run' = [ run EXCEPT !.pc = "loop" ]
    /\ UNCHANGED <<lcd, dev, bus, ret, hist, job, faulty, plugin, gv, now, stopper, signals, ghost>>

(* display_signal, lines 1031-1035: insert under _custom_display_lock *)
DisplaySignalUpTo(n) ==
    /\ ghost.enq < n
    /\ \E item \in ItemKinds(ghost.enq + 1) :
         plugin' = [ plugin EXCEPT !.custom_display_queue = queue_insert(@, item) ]
    /\ ghost' = [ ghost EXCEPT !.enq = @ + 1 ]
    /\ signals' = signals + 1
    /\ UNCHANGED <<lcd, dev, bus, ret, hist, job, faulty, gv, now, run, stopper, cond>>

DisplaySignal == DisplaySignalUpTo(MaxItems)

(* display_signal, line 1037: _notify_display_condition *)
SignalNotify ==
    /\ signals > 0 /\ cond = "free"
    /\ signals' = signals - 1
    /\ run' = notify_all(run)
    /\ ghost' = notified(ghost, run)
    /\ UNCHANGED <<lcd, dev, bus, ret, hist, job, faulty, plugin, gv, now, stopper, cond>>

(* wake_signal *)
WakeSignal ==
    /\ \E ok \in OutcomesFor(lcd, 1) :
         LET w == wake_display(plugin, lcd, now, ok[1]) IN
         /\ Called(plugin.idled, "wake_signal", w.res)
         /\ plugin' = w.plg
    /\ UNCHANGED <<hist, job, faulty, gv, now, run, stopper, signals, cond, ghost>>

(* stop(), line 1070 *)
StopRunning ==
    /\ stopper = "idle"
    /\ plugin' = [ plugin EXCEPT !.running = FALSE ]
    /\ stopper' = "disable"
    /\ UNCHANGED <<lcd, dev, bus, ret, hist, job, faulty, gv, now, run, signals, cond, ghost>>

(* stop(), line 1071: Lcd.disable, lines 213-214 *)
StopDisable ==
    /\ stopper = "disable"
    /\ IF lcd.enabled
       THEN /\ Returns("disable", Res([ lcd EXCEPT !.enabled = FALSE ], TRUE, << >>))
            /\ stopper' = "force_power_off"
       ELSE /\ UNCHANGED <<lcd, dev, bus, ret>>
            /\ stopper' = "notify"
    /\ UNCHANGED <<hist, job, faulty, plugin, gv, now, run, signals, cond, ghost>>

(* Lcd.disable, line 215 *)
StopForcePowerOff ==
    /\ stopper = "force_power_off"
    /\ \E ok \in { TRUE, ~faulty } : Returns("force_power_off", force_power_off(lcd, ok))
    /\ stopper' = "notify"
    /\ UNCHANGED <<hist, job, faulty, plugin, gv, now, run, signals, cond, ghost>>

(* stop(), line 1072: _notify_display_condition; stop() returns *)
StopNotify ==
    /\ stopper = "notify" /\ cond = "free"
    /\ run' = notify_all(run)
    /\ stopper' = "done"
    /\ ghost' = notified(ghost, run)
    /\ UNCHANGED <<lcd, dev, bus, ret, hist, job, faulty, plugin, gv, now, signals, cond>>

(* Time passes *)
Tick ==
    /\ now < MaxTime
    /\ now' = now + 1
    /\ UNCHANGED <<lcd, dev, bus, ret, hist, job, faulty, plugin, gv, run, stopper, signals, cond, ghost>>

(* The host's status changes *)
HostChange(hosts) ==
    /\ \E g \in hosts \ { gv } : gv' = g
    /\ UNCHANGED <<lcd, dev, bus, ret, hist, job, faulty, plugin, now, run, stopper, signals, cond, ghost>>

NextSched ==
    \/ RunStart
    \/ RunLoop
    \/ RunBranch
    \/ RunNormal
    \/ RunWhile
    \/ RunPop
    \/ RunCall
    \/ RunWake
    \/ RunIdleCheck
    \/ RunCheck
    \/ RunTimeout
    \/ RunReacquire
    \/ DisplaySignal
    \/ SignalNotify
    \/ WakeSignal
    \/ StopRunning
    \/ StopDisable
    \/ StopForcePowerOff
    \/ StopNotify
    \/ Tick

SpecSched == InitSched /\ [][NextSched]_vars

(* The scheduler thread's steps other than a driver call, and the steps of  *)
(* stop() after its first                                                    *)
RunThread ==
    \/ RunStart
    \/ RunLoop
    \/ RunBranch
    \/ RunNormal
    \/ RunWhile
    \/ RunPop
    \/ RunWake
    \/ RunIdleCheck
    \/ RunCheck
    \/ RunTimeout
    \/ RunReacquire

(* What a driver call of the tick (RunCall) does to the thread's position:  *)
(* the call returns whatever the bus did, and the thread goes on.            *)
RunCallAdvance ==
    /\ run.pc = "exec" /\ Head(run.todo).op \in DriverOps
    /\ run' = advance(run, settle(plugin, Tail(run.todo)).todo)

StopThread == StopDisable \/ StopForcePowerOff \/ StopNotify

(* SpecSchedFair: the scheduler with its producers and stop() on a working  *)
(* bus with the default settings, the clock left out; a thread that can      *)
(* take a step takes it in the end (the host's threads are scheduled         *)
(* fairly, and wait(wait_time) times out).                                    *)
NextSchedFair ==
    \/ RunStart
    \/ RunLoop
    \/ RunBranch
    \/ RunNormal
    \/ RunWhile
    \/ RunPop
    \/ RunCall
    \/ RunWake
    \/ RunIdleCheck
    \/ RunCheck
    \/ RunTimeout
    \/ RunReacquire
    \/ DisplaySignal
    \/ SignalNotify
    \/ WakeSignal
    \/ StopRunning
    \/ StopDisable
    \/ StopForcePowerOff
    \/ StopNotify

InitSchedFair == InitSched /\ ~faulty /\ plugin.idle_timeout_seconds = 0

SpecSchedFair ==
    /\ InitSchedFair
    /\ [][NextSchedFair]_vars
    /\ WF_vars(RunThread)
    /\ WF_run(RunCallAdvance)
    /\ WF_vars(StopThread)

(* SpecIdle: the scheduler on a working bus with the clock, a changing host *)
(* status, wake requests and custom requests; stop() is not called.          *)
InitIdle == InitPlugin /\ ~faulty /\ gv \in SchedHosts

NextIdle ==
    \/ RunStart
    \/ RunLoop
    \/ RunBranch
    \/ RunNormal
    \/ RunWhile
    \/ RunPop
    \/ RunCall
    \/ RunWake
    \/ RunIdleCheck
    \/ RunCheck
    \/ RunTimeout
    \/ RunReacquire
    \/ DisplaySignal
    \/ SignalNotify
    \/ WakeSignal
    \/ Tick
    \/ HostChange(SchedHosts)

SpecIdle == InitIdle /\ [][NextIdle]_vars

(* The host statuses of SpecStatus: each branch of _display_normal, and a   *)
(* second sub-value for the branches that have one                            *)
NoStation == << <<0, 0>>, <<0, 0>> >>
StatusHosts ==
    { IdleHost,
      [ IdleHost EXCEPT !.tm_min = 6 ],
      [ IdleHost EXCEPT !.en = FALSE ],
      [ IdleHost EXCEPT !.mm = TRUE ],
      [ IdleHost EXCEPT !.rd = TRUE, !.rdst = 7200 ],
      [ IdleHost EXCEPT !.rd = TRUE, !.rdst = 3600 ],
      [ IdleHost EXCEPT !.wl = 50 ],
      Host(1, NoStation, << 0, 0 >>, 0, TRUE, FALSE, FALSE, 0, 100, 5),
      Host(1, << <<1, 0>>, <<0, 0>> >>, << 0, 0 >>, 0, TRUE, FALSE, FALSE, 0, 100, 5),
      Host(RunOnce, << <<RunOnce, 0>>, <<0, 0>> >>, << 0, 0 >>, 0, TRUE, FALSE, FALSE, 0, 100, 5),
      Host(ManualMode, << <<ManualMode, 0>>, <<0, 0>> >>, << 0, 0 >>, 0, TRUE, TRUE, FALSE, 0, 100, 5),
      Host(ManualMode, << <<ManualMode, 0>>, <<0, 0>> >>, << 1, 0 >>, 0, TRUE, TRUE, FALSE, 0, 100, 5),
      Host(1, << <<1, 65>>, <<1, 3700>> >>, << 1, 1 >>, 0, TRUE, FALSE, FALSE, 0, 100, 5),
      Host(1, << <<1, 64>>, <<1, 3700>> >>, << 1, 1 >>, 2, TRUE, FALSE, FALSE, 0, 100, 5) }

(* SpecStatus: the status ticks of the scheduler on a working bus under     *)
(* every host status, with wake requests; no custom request, no clock, no    *)
(* stop().                                                                    *)
InitStatus == InitPlugin /\ ~faulty /\ gv \in StatusHosts

NextStatus ==
    \/ RunStart
    \/ RunLoop
    \/ RunBranch
    \/ RunNormal
    \/ RunCall
    \/ RunWake
    \/ RunIdleCheck
    \/ RunCheck
    \/ RunTimeout
    \/ RunReacquire
    \/ WakeSignal
    \/ HostChange(StatusHosts)

SpecStatus == InitStatus /\ [][NextStatus]_vars

(* SpecCustom: the scheduler and the producers of custom requests on a       *)
(* working bus with the default settings; no wake request, no stop().         *)
InitCustom == InitSched /\ ~faulty /\ plugin.idle_timeout_seconds = 0

DisplaySignalCustom == DisplaySignalUpTo(MaxQueued)

NextCustom ==
    \/ RunStart
    \/ RunLoop
    \/ RunBranch
    \/ RunNormal
    \/ RunWhile
    \/ RunPop
    \/ RunCall
    \/ RunWake
    \/ RunIdleCheck
    \/ RunCheck
    \/ RunTimeout
    \/ RunReacquire
    \/ DisplaySignalCustom
    \/ SignalNotify

SpecCustom == InitCustom /\ [][NextCustom]_vars

----------------------------------------------------------------------------
(* SpecDrv: one driver instance, one calling thread *)

InitDrv ==
    /\ \E w \in 1..MaxWidth, h \in { 8 * b - 1 : b \in 1..MaxBands } :
           lcd = LcdNew(DefaultHwAddr, w, h)
    /\ dev = DevInit
    /\ bus = << >>
    /\ ret = [ op |-> "init", status |-> TRUE ]
    /\ hist = [ track |-> FALSE, n |-> 0 ]
    /\ job = NoJob
    /\ plugin = PluginNew(0)
    /\ gv = IdleHost
    /\ now = 0
    /\ run = RunNew
    /\ stopper = "idle"
    /\ signals = 0
    /\ cond = "free"
    /\ faulty = TRUE
    /\ ghost = GhostNew

DrvSetWindow ==
    \E a \in WindowArgs(lcd) :
      \E oks \in IF a \in ValidWindows(lcd) THEN Outcomes(1) ELSE { << TRUE >> } :
        LET r == lcd_set_print_area(lcd, a[1][1], a[1][2], a[2][1], a[2][2], oks) IN
        /\ Returns("set_window", r)
        /\ hist' = [ track |-> r.status, n |-> 0 ]
        /\ UNCHANGED <<schedVars, job>>

DrvWriteDataByte ==
    /\ hist.track => hist.n < MaxWrites
    /\ \E ok \in BOOLEAN :
        LET r == write_data_byte(lcd, ok) IN
        /\ Returns("write_data_byte", r)
        /\ hist' = IF r.status /\ hist.track THEN [ hist EXCEPT !.n = @ + 1 ] ELSE hist
        /\ UNCHANGED <<schedVars, job>>

DrvWriteDataSequence ==
    \E len \in SeqLens :
      \E oks \in Outcomes(NumChunks(len)) :
        /\ Returns("write_data_sequence", write_data_sequence(lcd, len, oks))
        /\ hist' = [ track |-> FALSE, n |-> 0 ]
        /\ UNCHANGED <<schedVars, job>>

DrvClear ==
    \E oks \in Outcomes(1 + ClearCount * NumChunks(ClearLen)) :
        /\ Returns("clear", clear(lcd, oks))
        /\ hist' = [ track |-> FALSE, n |-> 0 ]
        /\ UNCHANGED <<schedVars, job>>

DrvWriteLine ==
    \E row_start \in Coords(lcd.max_row_addr), size \in 1..MaxScale :
      \E oks \in Outcomes(write_line_txs(lcd, row_start, size)) :
        /\ Returns("write_line", write_line(lcd, row_start, size, oks))
        /\ hist' = [ track |-> FALSE, n |-> 0 ]
        /\ UNCHANGED <<schedVars, job>>

DrvSetPower ==
    \E on \in BOOLEAN, ok \in BOOLEAN :
        /\ Returns("set_power", set_power(lcd, on, ok))
        /\ UNCHANGED <<hist, job, plugin, gv, now, run, stopper, signals, cond, faulty, ghost>>

DrvDisable ==
    \E ok \in BOOLEAN :
        /\ Returns("disable", disable(lcd, ok))
        /\ UNCHANGED <<hist, job, plugin, gv, now, run, stopper, signals, cond, faulty, ghost>>

NextDrv ==
    \/ DrvSetWindow
    \/ DrvWriteDataByte
    \/ DrvWriteDataSequence
    \/ DrvClear
    \/ DrvWriteLine
    \/ DrvDisable

SpecDrv == InitDrv /\ [][NextDrv]_vars

----------------------------------------------------------------------------
(* SpecGate and SpecArgs: one driver instance, one calling thread, the calls *)
(* of the driver's write path.  job remembers the driver before the last call, the  *)
(* call's arguments, the number of failure messages printed so far (counted  *)
(* up to 2) and whether a transaction has failed so far.                      *)

InitGate ==
    /\ \E w \in 1..MaxWidth, h \in { 8 * b - 1 : b \in 1..MaxBands } :
           lcd = LcdNew(DefaultHwAddr, w, h)
    /\ dev = DevInit
    /\ bus = << >>
    /\ ret = [ op |-> "init", status |-> TRUE ]
    /\ hist = [ track |-> FALSE, n |-> 0 ]
    /\ job = [ fn |-> "gate", before |-> lcd, args |-> << >>, logs |-> 0, failed |-> FALSE ]
    /\ plugin = PluginNew(0)
    /\ gv = IdleHost
    /\ now = 0
    /\ run = RunNew
    /\ stopper = "idle"
    /\ signals = 0
    /\ cond = "free"
    /\ faulty = TRUE
    /\ ghost = GhostNew

(* A call of the driver returns r: the prints of lines 245-248, 269-272 and *)
(* 302-305 are counted                                                        *)
DriverCall(op, args, r) ==
    /\ Returns(op, r)
    /\ job' = [ fn |-> "gate", before |-> lcd, args |-> args,
                logs |-> Min(2, job.logs + Cardinality({ i \in 1..Len(r.txs) : r.txs[i].logged })),
                failed |-> job.failed \/ \E i \in 1..Len(r.txs) : ~r.txs[i].ok ]

GateControlByte ==
    \E byte \in { LCD_CONTROL_PWR_ON, LCD_CONTROL_PWR_OFF }, ok \in BOOLEAN :
        /\ DriverCall("write_control_byte", << byte >>, write_control_byte(lcd, byte, FALSE, ok))
        /\ UNCHANGED <<hist, schedVars>>

GateDataByte ==
    \E ok \in BOOLEAN :
        /\ DriverCall("write_data_byte", << >>, write_data_byte(lcd, ok))
        /\ UNCHANGED <<hist, schedVars>>

GateSequence ==
    \E cmd \in { CONTROL_BYTE, DATA_BYTE }, len \in SeqLens :
      \E oks \in Outcomes(NumChunks(len)) :
        /\ DriverCall("write_sequence", << cmd, len >>,
                      write_sequence(lcd, cmd, IF cmd = DATA_BYTE THEN "data" ELSE "window", len, oks))
        /\ UNCHANGED <<hist, schedVars>>

GateSetPower ==
    \E on \in BOOLEAN, ok \in BOOLEAN :
        /\ DriverCall("set_power", << IF on THEN 1 ELSE 0 >>, set_power(lcd, on, ok))
        /\ UNCHANGED <<hist, schedVars>>

GateForcePowerOff ==
    \E ok \in BOOLEAN :
        /\ DriverCall("force_power_off", << >>, force_power_off(lcd, ok))
        /\ UNCHANGED <<hist, schedVars>>

GateDisable ==
    \E ok \in BOOLEAN :
        /\ DriverCall("disable", << >>, disable(lcd, ok))
        /\ UNCHANGED <<hist, schedVars>>

GateSetWindow ==
    \E a \in WindowArgs(lcd) :
      \E oks \in IF a \in ValidWindows(lcd) THEN Outcomes(1) ELSE { << TRUE >> } :
        /\ DriverCall("set_window", << a[1][1], a[1][2], a[2][1], a[2][2] >>,
                      lcd_set_print_area(lcd, a[1][1], a[1][2], a[2][1], a[2][2], oks))
        /\ UNCHANGED <<hist, schedVars>>

(* The outcomes of write_line's transactions tried by SpecArgs: the window's *)
(* succeeds or fails, and so do the rows', all of them alike                  *)
LineOutcomes(n) == { [ i \in 1..n |-> IF i = 1 THEN w ELSE d ] : w \in BOOLEAN, d \in BOOLEAN }

GateWriteLine ==
    \E row_start \in Coords(lcd.max_row_addr), size \in 1..MaxScale :
      \E oks \in LineOutcomes(write_line_txs(lcd, row_start, size)) :
        /\ DriverCall("write_line", << row_start, size >>, write_line(lcd, row_start, size, oks))
        /\ UNCHANGED <<hist, schedVars>>

(* write_block with an empty text: every pair of scales of -1..MaxScale that *)
(* is rejected (line 523), and every pair of equal scales (line 542)          *)
GateWriteBlock ==
    \E row_start \in 0..lcd.max_row_addr, min \in -1..MaxScale, max \in -1..MaxScale :
      /\ min > max \/ min <= 0 \/ max <= 0 \/ min = max
      /\ \E oks \in IF min > max \/ min <= 0 \/ max <= 0 THEN { << >> }
                     ELSE LineOutcomes(write_line_txs(lcd, row_start, max)) :
           /\ DriverCall("write_block", << row_start, min, max >>,
                         write_block(lcd, << >>, row_start, min, max, oks))
           /\ UNCHANGED <<hist, schedVars>>

(* SpecGate: the byte, sequence and power calls and disable() *)
NextGate ==
    \/ GateControlByte
    \/ GateDataByte
    \/ GateSequence
    \/ GateSetPower
    \/ GateForcePowerOff
    \/ GateDisable

SpecGate == InitGate /\ [][NextGate]_vars

(* SpecArgs: the calls that check their arguments, and disable() *)
NextArgs ==
    \/ GateSetWindow
    \/ GateWriteLine
    \/ GateWriteBlock
    \/ GateDisable

SpecArgs == InitGate /\ [][NextArgs]_vars

----------------------------------------------------------------------------
(* The text layout: the font renderer, write_line's bytes and write_block's *)
(* choice of a scale.  A text is the sequence of its characters' codes; the  *)
(* division `/` of write_block is the integer division of the Python 2 the   *)
(* plugin was written for.                                                    *)

JUSTIFY_LEFT == 0
JUSTIFY_RIGHT == 1
JUSTIFY_CENTER == 2
LCD_ASCII_BEGIN == 32
LCD_ASCII_MAX == 127
MaxTextSize == 8
char_other == << 127, 127, 127, 127, 127 >>

(* Lcd.LCD_ASCII: the glyphs of the characters 0x20..0x7F, five columns each *)
LCD_ASCII == <<
    << 0, 0, 0, 0, 0 >>,
    << 0, 0, 95, 0, 0 >>,
    << 0, 7, 0, 7, 0 >>,
    << 20, 127, 20, 127, 20 >>,
    << 36, 42, 127, 42, 18 >>,
    << 35, 19, 8, 100, 98 >>,
    << 54, 73, 85, 34, 80 >>,
    << 0, 5, 3, 0, 0 >>,
    << 0, 28, 34, 65, 0 >>,
    << 0, 65, 34, 28, 0 >>,
    << 8, 42, 28, 42, 8 >>,
    << 8, 8, 62, 8, 8 >>,
    << 0, 80, 48, 0, 0 >>,
    << 8, 8, 8, 8, 8 >>,
    << 0, 96, 96, 0, 0 >>,
    << 32, 16, 8, 4, 2 >>,
    << 62, 81, 73, 69, 62 >>,
    << 0, 66, 127, 64, 0 >>,
    << 66, 97, 81, 73, 70 >>,
    << 33, 65, 69, 75, 49 >>,
    << 24, 20, 18, 127, 16 >>,
    << 39, 69, 69, 69, 57 >>,
    << 60, 74, 73, 73, 48 >>,
    << 1, 113, 9, 5, 3 >>,
    << 54, 73, 73, 73, 54 >>,
    << 6, 73, 73, 41, 30 >>,
    << 0, 54, 54, 0, 0 >>,
    << 0, 86, 54, 0, 0 >>,
    << 0, 8, 20, 34, 65 >>,
    << 20, 20, 20, 20, 20 >>,
    << 65, 34, 20, 8, 0 >>,
    << 2, 1, 81, 9, 6 >>,
    << 50, 73, 121, 65, 62 >>,
    << 126, 17, 17, 17, 126 >>,
    << 127, 73, 73, 73, 54 >>,
    << 62, 65, 65, 65, 34 >>,
    << 127, 65, 65, 34, 28 >>,
    << 127, 73, 73, 73, 65 >>,
    << 127, 9, 9, 1, 1 >>,
    << 62, 65, 65, 81, 50 >>,
    << 127, 8, 8, 8, 127 >>,
    << 0, 65, 127, 65, 0 >>,
    << 32, 64, 65, 63, 1 >>,
    << 127, 8, 20, 34, 65 >>,
    << 127, 64, 64, 64, 64 >>,
    << 127, 2, 4, 2, 127 >>,
    << 127, 4, 8, 16, 127 >>,
    << 62, 65, 65, 65, 62 >>,
    << 127, 9, 9, 9, 6 >>,
    << 62, 65, 81, 33, 94 >>,
    << 127, 9, 25, 41, 70 >>,
    << 70, 73, 73, 73, 49 >>,
    << 1, 1, 127, 1, 1 >>,
    << 63, 64, 64, 64, 63 >>,
    << 31, 32, 64, 32, 31 >>,
    << 127, 32, 24, 32, 127 >>,
    << 99, 20, 8, 20, 99 >>,
    << 3, 4, 120, 4, 3 >>,
    << 97, 81, 73, 69, 67 >>,
    << 0, 0, 127, 65, 65 >>,
    << 2, 4, 8, 16, 32 >>,
    << 65, 65, 127, 0, 0 >>,
    << 4, 2, 1, 2, 4 >>,
    << 64, 64, 64, 64, 64 >>,
    << 0, 1, 2, 4, 0 >>,
    << 32, 84, 84, 84, 120 >>,
    << 127, 72, 68, 68, 56 >>,
    << 56, 68, 68, 68, 32 >>,
    << 56, 68, 68, 72, 127 >>,
    << 56, 84, 84, 84, 24 >>,
    << 8, 126, 9, 1, 2 >>,
    << 8, 20, 84, 84, 60 >>,
    << 127, 8, 4, 4, 120 >>,
    << 0, 68, 125, 64, 0 >>,
    << 32, 64, 68, 61, 0 >>,
    << 0, 127, 16, 40, 68 >>,
    << 0, 65, 127, 64, 0 >>,
    << 124, 4, 24, 4, 120 >>,
    << 124, 8, 4, 4, 120 >>,
    << 56, 68, 68, 68, 56 >>,
    << 124, 20, 20, 20, 8 >>,
    << 8, 20, 20, 24, 124 >>,
    << 124, 8, 4, 4, 8 >>,
    << 72, 84, 84, 84, 32 >>,
    << 4, 63, 68, 64, 32 >>,
    << 60, 64, 64, 32, 124 >>,
    << 28, 32, 64, 32, 28 >>,
    << 60, 64, 48, 64, 60 >>,
    << 68, 40, 16, 40, 68 >>,
    << 12, 80, 80, 80, 60 >>,
    << 68, 100, 84, 76, 68 >>,
    << 0, 8, 54, 65, 0 >>,
    << 0, 0, 127, 0, 0 >>,
    << 0, 65, 54, 8, 0 >>,
    << 8, 8, 42, 28, 8 >>,
    << 8, 28, 42, 8, 8 >> >>

(* Bit i of the byte v; v | w of two bytes *)
Bit(v, i) == (v \div 2^i) % 2

Sum8(F(_)) == F(0) + F(1) + F(2) + F(3) + F(4) + F(5) + F(6) + F(7)

BitOr(v, w) == Sum8(LAMBDA i : 2^i * (Bit(v, i) + Bit(w, i) - Bit(v, i) * Bit(w, i)))

(* A list given by its elements, each of them worked out once *)
list(f) == f \o << >>

(* [0] * n *)
zeros(n) == IF n <= 0 THEN << >> ELSE list([ i \in 1..n |-> 0 ])

(* Lcd._bit_shift_right_byte_list.  The integer can be longer than a machine *)
(* word: it is kept as its binary digits, the highest first.                  *)
(* from_bytes: int.from_bytes(bytes(lst), byteorder='big'); shifted:          *)
(* list_value >>= num; the result: list(value.to_bytes(length, 'big'))        *)
bit_shift_right_byte_list(lst, num) ==
    LET from_bytes == list([ p \in 1..(8 * Len(lst)) |->
                               Bit(lst[(p - 1) \div 8 + 1], 7 - ((p - 1) % 8)) ])
        shifted == list([ p \in 1..Len(from_bytes) |->
                            IF p <= num THEN 0 ELSE from_bytes[p - num] ])
    IN  list([ k \in 1..Len(lst) |-> Sum8(LAMBDA i : 2^i * shifted[8 * k - i]) ])

(* lines 490-496: col_mask[0] after the first n iterations of the loop *)
RECURSIVE first_col_mask(_)
first_col_mask(n) == IF n <= 0 THEN 0 ELSE BitOr(first_col_mask(n - 1) \div 2, 128)

(* col_mask at the start of the iterations 0..t of the loop of line 497 *)
RECURSIVE col_mask(_, _)
col_mask(text_size_multiplier, t) ==
    IF t <= 0
    THEN << list([ k \in 1..text_size_multiplier |->
                     IF k = 1 THEN first_col_mask(text_size_multiplier) ELSE 0 ]) >>
    ELSE LET before == col_mask(text_size_multiplier, t - 1) IN
         Append(before, bit_shift_right_byte_list(before[t], text_size_multiplier))

(* The variant of ret_byte that reads the glyph's rows from the top *)
ret_byte_flipped(v, masks, t, acc) ==
    Sum8(LAMBDA i : IF Bit(v, i) # 0 THEN masks[i + 1] ELSE 0)

(* lines 497-510 for one byte of ret_seq: the iterations t..7 of the loop,  *)
(* v the glyph's column, masks[t + 1] the byte of col_mask that iteration t  *)
(* writes to this byte's row-band; mask is 0x80 >> t, so that v & mask is    *)
(* bit 7 - t of v                                                             *)
RECURSIVE ret_byte(_, _, _, _)
ret_byte(v, masks, t, acc) ==
    IF t > 7 THEN acc
    ELSE ret_byte(v, masks, t + 1,
                  IF Bit(v, 7 - t) # 0 THEN BitOr(acc, masks[t + 1]) ELSE acc)

(* Lcd._generate_char_sequence: ret_seq[b][c], b the row-band, c the column *)
generate_char_sequence(chv, text_size_multiplier) ==
    LET seq == (IF chv >= LCD_ASCII_BEGIN /\ chv <= LCD_ASCII_MAX
                THEN LCD_ASCII[chv - LCD_ASCII_BEGIN + 1] ELSE char_other) \o << 0 >>
        cm == col_mask(text_size_multiplier, 7)
    IN  list([ b \in 1..text_size_multiplier |->
          LET masks == list([ t \in 1..8 |-> cm[t][text_size_multiplier - b + 1] ])
              \* the byte of the glyph's column j, written to the columns
              \* j * text_size_multiplier + l of the band (lines 501-508)
              bytes == list([ j \in 1..Len(seq) |-> ret_byte(seq[j], masks, 0, 0) ])
          IN  list([ c \in 1..(Len(seq) * text_size_multiplier) |->
                       bytes[(c - 1) \div text_size_multiplier + 1] ]) ])

(* lines 600-607 of write_line: the characters' sequences side by side *)
RECURSIVE char_rows(_, _)
char_rows(str, text_size_multiplier) ==
    IF Len(str) = 1 THEN generate_char_sequence(str[1], text_size_multiplier)
    ELSE LET seq == char_rows(SubSeq(str, 1, Len(str) - 1), text_size_multiplier)
             seqChar == generate_char_sequence(str[Len(str)], text_size_multiplier)
         IN  list([ i \in 1..Len(seq) |-> seq[i] \o seqChar[i] ])

(* The variant of add_columns that centres with the odd column on the left *)
add_columns_odd_left(row, columnsToAdd, justification) ==
    IF justification = JUSTIFY_RIGHT THEN zeros(columnsToAdd) \o row
    ELSE IF justification = JUSTIFY_CENTER
    THEN LET columnsToAddRight == columnsToAdd \div 2
             columnsToAddLeft == columnsToAdd - columnsToAddRight
         IN  zeros(columnsToAddLeft) \o row \o zeros(columnsToAddRight)
    ELSE row \o zeros(columnsToAdd)

(* lines 623-639: columns added to a row *)
add_columns(row, columnsToAdd, justification) ==
    IF justification = JUSTIFY_RIGHT THEN zeros(columnsToAdd) \o row
    ELSE IF justification = JUSTIFY_CENTER
    THEN LET columnsToAddLeft == columnsToAdd \div 2
             columnsToAddRight == columnsToAdd - columnsToAddLeft
         IN  zeros(columnsToAddLeft) \o row \o zeros(columnsToAddRight)
    ELSE row \o zeros(columnsToAdd)

(* The variant of remove_columns that crops a left-justified row on the left *)
remove_columns_left(row, columnsToRemove, justification) ==
    SubSeq(row, columnsToRemove + 1, Len(row))

(* lines 640-654: columns removed from a row *)
remove_columns(row, columnsToRemove, justification) ==
    IF justification = JUSTIFY_RIGHT THEN SubSeq(row, columnsToRemove + 1, Len(row))
    ELSE IF justification = JUSTIFY_CENTER
    THEN LET columnsToRemoveLeft == columnsToRemove \div 2
             columnsToRemoveRight == columnsToRemove - columnsToRemoveLeft
             cut == SubSeq(row, columnsToRemoveLeft + 1, Len(row))
         IN  SubSeq(cut, 1, Len(cut) - columnsToRemoveRight)
    ELSE SubSeq(row, 1, Len(row) - columnsToRemove)

(* lines 598-654 of write_line: the data sequences for a window of          *)
(* maxNumRows row-bands and maxNumCols columns                                *)
write_line_seq(str, text_size_multiplier, maxNumRows, maxNumCols, justification) ==
    LET seq == char_rows(IF Len(str) <= 0 THEN << 32 >> ELSE str, text_size_multiplier)
        added == IF Len(seq) < maxNumRows
                 THEN seq \o list([ i \in 1..(maxNumRows - Len(seq)) |-> zeros(Len(seq[1])) ])
                 ELSE seq
        kept == SubSeq(added, 1, Min(Len(added), maxNumRows))
        columnsToAdd == maxNumCols - Len(kept[1])
        padded == IF columnsToAdd > 0
                  THEN list([ i \in 1..Len(kept) |->
                                add_columns(kept[i], columnsToAdd, justification) ])
                  ELSE kept
        columnsToRemove == Len(padded[1]) - maxNumCols
    IN  IF columnsToRemove > 0
        THEN list([ i \in 1..Len(padded) |->
                      remove_columns(padded[i], columnsToRemove, justification) ])
        ELSE padded

(* Lcd.write_line with its bytes: the value returned and the sequences       *)
(* passed to _write_data_sequence; ok: the window's transaction succeeds      *)
write_line_data(l, str, row_start, text_size_multiplier, justification, ok) ==
    IF row_start < l.min_row_addr \/ row_start > l.max_row_addr
    THEN [ status |-> 0, seqs |-> << >> ]
    ELSE LET row_end == Min(row_start + text_size_multiplier - 1, l.max_row_addr)
             a == lcd_set_print_area(l, l.min_col_addr, l.max_col_addr,
                                     row_start, row_end, << ok >>)
         IN  [ status |-> 1,
               seqs |-> write_line_seq(str, text_size_multiplier,
                                       a.lcd.gmax_row - a.lcd.gmin_row + 1,
                                       a.lcd.gmax_col - a.lcd.gmin_col + 1,
                                       justification) ]

(* Lcd.write_block's layout.  A text is given by its words, each by its     *)
(* length: str.split(" "), so "" is the one word of length 0; a line is a    *)
(* sequence of words.                                                         *)

(* lines 554-565: the word w in the loop that wraps the words *)
wrap_word(st, w, currentTextSize, maxWidth) ==
    LET nextSize == st.currentSize + 6 * w + 6 IN
    IF nextSize * currentTextSize > maxWidth
    THEN [ lines |-> Append(st.lines, << w >>),
           currentSize |-> 6 * w,
           lineTooLong |-> st.lineTooLong \/ (6 * w) * currentTextSize > maxWidth ]
    ELSE [ lines |-> [ st.lines EXCEPT ![Len(st.lines)] = Append(@, w) ],
           currentSize |-> st.currentSize + 6 * w + 6,
           lineTooLong |-> st.lineTooLong ]

(* lines 550-565: the words wrapped at currentTextSize, words 2..i done *)
RECURSIVE wrap(_, _, _, _)
wrap(words, currentTextSize, maxWidth, i) ==
    IF i <= 1
    THEN [ lines |-> << << words[1] >> >>, currentSize |-> 6 * words[1],
           lineTooLong |-> FALSE ]
    ELSE wrap_word(wrap(words, currentTextSize, maxWidth, i - 1), words[i],
                   currentTextSize, maxWidth)

(* The variant of shrink_accepts that does not count the lines *)
shrink_accepts_any_count(w, maxLines) == ~w.lineTooLong

(* line 566: the wrapping is accepted *)
shrink_accepts(w, maxLines) == Len(w.lines) <= maxLines /\ ~w.lineTooLong

(* lines 544-569: the loop from its head with currentTextSize > min_text_size *)
RECURSIVE shrink(_, _, _, _, _)
shrink(words, min_text_size, max_text_size, maxWidth, currentTextSize) ==
    LET size == currentTextSize - 1
        maxLines == max_text_size \div size
        w == wrap(words, size, maxWidth, Len(words))
    IN  IF shrink_accepts(w, maxLines)
        THEN [ currentTextSize |-> size, maxLines |-> maxLines, lines |-> w.lines,
               accepted |-> TRUE ]
        ELSE IF size > min_text_size
        THEN shrink(words, min_text_size, max_text_size, maxWidth, size)
        ELSE [ currentTextSize |-> size, maxLines |-> maxLines, lines |-> w.lines,
               accepted |-> FALSE ]

(* lines 570-574: a blank line above and below while two more fit *)
RECURSIVE center_lines(_, _)
center_lines(lines, maxLines) ==
    IF Len(lines) + 2 <= maxLines
    THEN center_lines(<< << 0 >> >> \o lines \o << << 0 >> >>, maxLines)
    ELSE lines

(* lines 575-576: lines[:maxLines] *)
truncate_lines(lines, maxLines) ==
    IF Len(lines) > maxLines THEN SubSeq(lines, 1, maxLines) ELSE lines

(* line 549 and line 576: maxLines is max_text_size / currentTextSize, an    *)
(* int under Python 2 and a float under Python 3, where the comparisons with *)
(* len(lines) come out as with the int but the slice lines[:maxLines] raises *)
(* TypeError                                                                  *)
truncate_raises(py3, lines, maxLines) == py3 /\ Len(lines) > maxLines

(* What write_line returns: 0 when row_start is outside the device *)
write_line_status(max_row_addr, row_start) ==
    IF row_start < 0 \/ row_start > max_row_addr THEN 0 ELSE 1

(* The row-bands a write_line call writes: its window *)
write_line_bands(max_row_addr, c) ==
    IF write_line_status(max_row_addr, c.row_start) = 0 THEN { }
    ELSE c.row_start..Min(c.row_start + c.text_size_multiplier - 1, max_row_addr)

(* printedCount of lines 577-581 *)
RECURSIVE printed_count(_, _)
printed_count(max_row_addr, calls) ==
    IF calls = << >> THEN 0
    ELSE (IF Head(calls).text
          THEN write_line_status(max_row_addr, Head(calls).row_start) ELSE 0)
         + printed_count(max_row_addr, Tail(calls))

(* Lcd.write_block: the kind of the call ("rejected", "line": handed to      *)
(* write_line as it is, "block": wrapped), the scale chosen, the lines as   *)
(* wrapped at it and as printed (centred and truncated), whether the call   *)
(* raised instead of printing (py3: the interpreter is Python 3),            *)
(* the write_line calls in their order (text: a line of the text, not the   *)
(* blanking after it; line; row_start; text_size_multiplier) and the value   *)
(* returned                                                                   *)
write_block_layout(words, row_start, min_text_size, max_text_size, maxWidth, max_row_addr, py3) ==
    IF min_text_size > max_text_size \/ min_text_size <= 0 \/ max_text_size <= 0
    THEN [ kind |-> "rejected", raised |-> FALSE,
           currentTextSize |-> 0, maxLines |-> 0, accepted |-> FALSE,
           wrapped |-> << >>, lines |-> << >>, calls |-> << >>, printedCount |-> 0 ]
    ELSE IF \/ totalSize(words) * max_text_size <= maxWidth
            \/ min_text_size = max_text_size
            \/ strLen(words) <= 0
    THEN LET calls == << [ text |-> TRUE, line |-> words, row_start |-> row_start,
                           text_size_multiplier |-> max_text_size ] >> IN
         [ kind |-> "line", raised |-> FALSE,
           currentTextSize |-> max_text_size, maxLines |-> 1,
           accepted |-> FALSE, wrapped |-> << words >>, lines |-> << words >>,
           calls |-> calls,
           printedCount |-> printed_count(max_row_addr, calls) ]
    ELSE LET s == shrink(words, min_text_size, max_text_size, maxWidth, max_text_size)
             centered == center_lines(s.lines, s.maxLines)
             lines == truncate_lines(centered, s.maxLines)
             rowNum == row_start + Len(lines) * s.currentTextSize
             calls == [ i \in 1..Len(lines) |->
                          [ text |-> TRUE, line |-> lines[i],
                            row_start |-> row_start + (i - 1) * s.currentTextSize,
                            text_size_multiplier |-> s.currentTextSize ] ]
                      \o (IF rowNum >= row_start + max_text_size THEN << >>
                          ELSE [ i \in 1..(row_start + max_text_size - rowNum) |->
                                   [ text |-> FALSE, line |-> << 0 >>,
                                     row_start |-> rowNum + i - 1,
                                     text_size_multiplier |-> 1 ] ])
         IN  IF truncate_raises(py3, centered, s.maxLines)
             THEN [ kind |-> "block", raised |-> TRUE,
                    currentTextSize |-> s.currentTextSize, maxLines |-> s.maxLines,
                    accepted |-> s.accepted, wrapped |-> s.lines,
                    lines |-> << >>, calls |-> << >>, printedCount |-> 0 ]
             ELSE [ kind |-> "block", raised |-> FALSE,
                    currentTextSize |-> s.currentTextSize, maxLines |-> s.maxLines,
                    accepted |-> s.accepted, wrapped |-> s.lines,
                    lines |-> lines, calls |-> calls,
                    printedCount |-> printed_count(max_row_addr, calls) ]

----------------------------------------------------------------------------
(* Calls of the pure parts of the driver: the arguments are drawn at the     *)
(* start, the call is one step.                                               *)

(* The other variables while a call of this kind is checked *)
Standby ==
    /\ lcd = LcdNew(DefaultHwAddr, DefaultPixelWidth, DefaultPixelHeight)
    /\ dev = DevInit
    /\ bus = << >>
    /\ ret = [ op |-> "init", status |-> TRUE ]
    /\ hist = [ track |-> FALSE, n |-> 0 ]
    /\ plugin = PluginNew(0)
    /\ gv = IdleHost
    /\ now = 0
    /\ run = RunNew
    /\ stopper = "idle"
    /\ signals = 0
    /\ cond = "free"
    /\ faulty = FALSE
    /\ ghost = GhostNew

(* SpecFont: _generate_char_sequence for every character from one below the *)
(* table to one above it, at every scale of 1..8                              *)
FontJobs ==
    [ fn : { "char" }, done : { FALSE }, out : { << >> },
      char : (LCD_ASCII_BEGIN - 1)..(LCD_ASCII_MAX + 1),
      text_size_multiplier : 1..MaxTextSize ]

InitFont == Standby /\ job \in FontJobs

GenerateCharSequence ==
    /\ job.fn = "char" /\ ~job.done
    /\ job' = [ job EXCEPT !.done = TRUE,
                           !.out = generate_char_sequence(job.char, job.text_size_multiplier) ]
    /\ UNCHANGED <<drvVars, schedVars>>

SpecFont == InitFont /\ [][GenerateCharSequence]_vars

(* SpecLine: write_line with its bytes, for texts of up to MaxChars          *)
(* characters (space and A) on devices of 5 to 24 columns                     *)
LineJobs ==
    [ fn : { "line" }, done : { FALSE }, out : { << >> },
      str : UNION { [ 1..k -> { 32, 65 } ] : k \in 0..MaxChars },
      text_size_multiplier : 1..MaxScale,
      justification : { JUSTIFY_LEFT, JUSTIFY_RIGHT, JUSTIFY_CENTER, 3 },
      width : { 5, 6, 7, 9, 12, 13, 24 },
      bands : 1..MaxBands,
      row_start : -1..MaxBands,
      ok : BOOLEAN ]

InitLine == Standby /\ job \in LineJobs

WriteLine ==
    /\ job.fn = "line" /\ ~job.done
    /\ job' = [ job EXCEPT !.done = TRUE,
                           !.out = write_line_data(
                                       LcdNew(DefaultHwAddr, job.width, 8 * job.bands),
                                       job.str, job.row_start, job.text_size_multiplier,
                                       job.justification, job.ok) ]
    /\ UNCHANGED <<drvVars, schedVars>>

SpecLine == InitLine /\ [][WriteLine]_vars

(* SpecBlock: write_block's layout for texts of up to MaxWords words of up  *)
(* to MaxWordLen characters on devices of 12, 20 and 36 columns               *)
BlockJobs ==
    [ fn : { "block" }, done : { FALSE }, out : { << >> },
      words : UNION { [ 1..k -> 0..MaxWordLen ] : k \in 1..MaxWords },
      row_start : -1..(2 * MaxBands),
      min_text_size : 0..MaxBlockScale,
      max_text_size : 0..MaxBlockScale,
      width : { 12, 20, 36 },
      bands : { MaxBands, 2 * MaxBands },
      py3 : BOOLEAN ]

InitBlock == Standby /\ job \in BlockJobs

WriteBlock ==
    /\ job.fn = "block" /\ ~job.done
    /\ job' = [ job EXCEPT !.done = TRUE,
                           !.out = write_block_layout(job.words, job.row_start,
                                       job.min_text_size, job.max_text_size,
                                       job.width, job.bands - 1, job.py3) ]
    /\ UNCHANGED <<drvVars, schedVars>>

SpecBlock == InitBlock /\ [][WriteBlock]_vars

(* SpecSeq: _write_sequence with a control or a data sequence of 0 to        *)
(* MaxChunks chunks and 0 to MaxTail bytes more, on a driver with a window   *)
(* selected and the cursor somewhere in it, enabled or disabled, with every  *)
(* outcome of the bus transactions                                            *)
SeqJobs ==
    UNION { [ fn : { "seq" }, done : { FALSE },
              out : { Res(lcd_increment_current(a.lcd, n), FALSE, << >>) },
              lcd : { [ lcd_increment_current(a.lcd, n) EXCEPT !.enabled = en ] },
              cmd : { CONTROL_BYTE, DATA_BYTE }, len : { len },
              oks : Outcomes(NumChunks(len)) ]
            : a \in UNION { { lcd_set_print_area(l, w[1][1], w[1][2], w[2][1], w[2][2],
                                                 << TRUE >>) : w \in ValidWindows(l) }
                            : l \in { LcdNew(DefaultHwAddr, width, 8 * bands) :
                                        width \in 1..MaxWidth, bands \in 1..MaxBands } },
              n \in 0..MaxWrites, en \in BOOLEAN, len \in SeqLens }

InitSeq == Standby /\ job \in SeqJobs

WriteSequence ==
    /\ job.fn = "seq" /\ ~job.done
    /\ job' = [ job EXCEPT !.done = TRUE,
                           !.out = write_sequence(job.lcd, job.cmd,
                                       IF job.cmd = DATA_BYTE THEN "data" ELSE "window",
                                       job.len, job.oks) ]
    /\ UNCHANGED <<drvVars, schedVars>>

SpecSeq == InitSeq /\ [][WriteSequence]_vars

(* SpecClear: clear() on devices of several widths and heights, enabled or   *)
(* disabled, with the outcomes of its bus transactions                        *)
ClearJobs ==
    UNION { [ fn : { "clear" }, done : { FALSE }, out : { Res(l, FALSE, << >>) },
              lcd : { l }, oks : Outcomes(1 + ClearCount) ]
            : l \in { [ LcdNew(DefaultHwAddr, width, height) EXCEPT !.enabled = en ] :
                        width \in { 1, 2, 32, 64, 96, 128, 132, 256 },
                        height \in { 8, 16, 32, 64, 128 }, en \in BOOLEAN } }

InitClear == Standby /\ job \in ClearJobs

Clear ==
    /\ job.fn = "clear" /\ ~job.done
    /\ job' = [ job EXCEPT !.done = TRUE, !.out = clear(job.lcd, job.oks) ]
    /\ UNCHANGED <<drvVars, schedVars>>

SpecClear == InitClear /\ [][Clear]_vars

----------------------------------------------------------------------------
(* SpecLock: the threads that write to one driver and its _write_lock.  The *)
(* scheduler thread writes one data sequence of job.chunks chunks and then    *)
(* the idle power-off; a signal caller's thread writes the wake power-on;     *)
(* the thread of stop() disables the driver and writes the forced power-off.  *)
(* A bus transaction begins and ends in two steps.  job.th[t] is thread t's   *)
(* place: its k-th call, where it is at in it, the chunks written; job.open   *)
(* are the threads inside a bus transaction; job.trace the transactions       *)
(* ended so far.                                                              *)

Threads == { "sched", "wake", "stop" }

(* The calls of thread t *)
Program(t, chunks) ==
    CASE t = "sched" -> << [ op |-> "write_sequence", n |-> chunks, force |-> FALSE ],
                           [ op |-> "write_control_byte", n |-> 1, force |-> FALSE ] >>
      [] t = "wake"  -> << [ op |-> "write_control_byte", n |-> 1, force |-> FALSE ] >>
      [] t = "stop"  -> << [ op |-> "write_control_byte", n |-> 1, force |-> TRUE ] >>

(* Lock.acquire() returns at once (the variant: whoever holds the lock) *)
acquire_returns_always(write_lock) == TRUE

(* Lock.acquire() returns when the lock is free *)
acquire_returns(write_lock) == write_lock = "free"

InitLock ==
    /\ Standby
    /\ \E chunks \in 1..(MaxChunks + 1) :
         job = [ fn |-> "lock", chunks |-> chunks, write_lock |-> "free", enabled |-> TRUE,
                 th |-> [ t \in Threads |->
                          [ k |-> 1, at |-> IF t = "stop" THEN "disable" ELSE "acquire", i |-> 0 ] ],
                 open |-> { }, trace |-> << >> ]

(* Lcd.disable, lines 211-212, in the thread of stop() *)
LockDisable ==
    /\ job.fn = "lock"
    /\ job.th["stop"].at = "disable"
    /\ job' = [ job EXCEPT !.enabled = FALSE, !.th["stop"].at = "acquire" ]
    /\ UNCHANGED <<drvVars, schedVars>>

(* self._write_lock.acquire(), lines 238 and 286 *)
WriteLockAcquire ==
    \E t \in Threads :
        /\ job.fn = "lock"
        /\ job.th[t].at = "acquire"
        /\ acquire_returns(job.write_lock)
        /\ job' = [ job EXCEPT !.write_lock = t, !.th[t].at = "check" ]
        /\ UNCHANGED <<drvVars, schedVars>>

(* `if self._enabled or force`, line 240; `if self._enabled`, line 288 *)
EnabledCheck ==
    \E t \in Threads :
        LET c == Program(t, job.chunks)[job.th[t].k] IN
        /\ job.fn = "lock"
        /\ job.th[t].at = "check"
        /\ job' = [ job EXCEPT !.th[t].at = IF job.enabled \/ c.force THEN "write" ELSE "release" ]
        /\ UNCHANGED <<drvVars, schedVars>>

(* The bus call of lines 242 and 294 is entered *)
BusWriteBegin ==
    \E t \in Threads :
        /\ job.fn = "lock"
        /\ job.th[t].at = "write"
        /\ job' = [ job EXCEPT !.open = @ \cup { t }, !.th[t].at = "in_write" ]
        /\ UNCHANGED <<drvVars, schedVars>>

(* The bus call returns or raises; the loop of line 291 goes on *)
BusWriteEnd ==
    \E t \in Threads, ok \in BOOLEAN :
        LET c == Program(t, job.chunks)[job.th[t].k]
            i == job.th[t].i + 1
        IN  /\ job.fn = "lock"
            /\ job.th[t].at = "in_write"
            /\ job' = [ job EXCEPT !.open = @ \ { t },
                                   !.trace = Append(@, [ thread |-> t, k |-> job.th[t].k,
                                                         op |-> c.op, chunk |-> i, ok |-> ok ]),
                                   !.th[t].i = i,
                                   !.th[t].at = IF i < c.n THEN "write" ELSE "release" ]
            /\ UNCHANGED <<drvVars, schedVars>>

(* self._write_lock.release(), lines 251 and 308; the thread's next call *)
WriteLockRelease ==
    \E t \in Threads :
        /\ job.fn = "lock"
        /\ job.th[t].at = "release"
        /\ job' = [ job EXCEPT !.write_lock = "free",
                               !.th[t] = [ k |-> job.th[t].k + 1, i |-> 0,
                                           at |-> IF job.th[t].k < Len(Program(t, job.chunks))
                                                  THEN "acquire" ELSE "done" ] ]
        /\ UNCHANGED <<drvVars, schedVars>>

NextLock ==
    \/ LockDisable
    \/ WriteLockAcquire
    \/ EnabledCheck
    \/ BusWriteBegin
    \/ BusWriteEnd
    \/ WriteLockRelease

SpecLock == InitLock /\ [][NextLock]_vars

----------------------------------------------------------------------------
(* SpecReload: a configuration reload that changes the bus address, beside  *)
(* the scheduler thread and a wake request.  A thread calling a method of     *)
(* self._lcd runs it on the driver that self._lcd was when the call began;   *)
(* a driver is known by its address.  job.lcd is self._lcd; job.th[t] is the  *)
(* driver thread t is in a call of and the bus transactions the call has yet  *)
(* to make; job.reload is the place of load_from_dict and the transactions   *)
(* the initialization has yet to make; job.last is the last transaction: its  *)
(* address, and whether load_from_dict had returned.                          *)

Callers == { "sched", "wake" }

(* The address after the reload *)
NewHwAddr == DefaultHwAddr + 2

InitReload ==
    /\ Standby
    /\ job = [ fn |-> "reload", lcd |-> DefaultHwAddr, lcd_hw_address |-> DefaultHwAddr,
               th |-> [ t \in Callers |-> [ self |-> 0, left |-> 0 ] ],
               reload |-> [ at |-> "start", left |-> 0 ],
               last |-> [ addr |-> 0, by |-> "none", returned |-> FALSE ] ]

(* A call of self._lcd begins: the scheduler thread's write_line at a scale  *)
(* of 1..MaxScale (lines 835-960), the wake's set_power (line 778)            *)
CallDriver ==
    \E t \in Callers, size \in 1..MaxScale :
        /\ job.fn = "reload"
        /\ job.th[t].left = 0
        /\ job' = [ job EXCEPT !.th[t] =
                      [ self |-> job.lcd,
                        left |-> IF t = "wake" THEN 1
                                 ELSE write_line_txs(lcd, 0, size) ] ]
        /\ UNCHANGED <<drvVars, schedVars>>

(* The next bus transaction of the call, to self._hw_write_addr *)
DriverWrite ==
    \E t \in Callers :
        /\ job.fn = "reload"
        /\ job.th[t].left > 0
        /\ job' = [ job EXCEPT !.th[t].left = @ - 1,
                               !.last = [ addr |-> job.th[t].self, by |-> t,
                                          returned |-> job.reload.at = "returned" ] ]
        /\ UNCHANGED <<drvVars, schedVars>>

(* load_from_dict, lines 712-718: the new address is stored and the old      *)
(* driver powered off                                                         *)
ReloadPowerOff ==
    /\ job.fn = "reload"
    /\ job.reload.at = "start"
    /\ job' = [ job EXCEPT !.lcd_hw_address = NewHwAddr,
                           !.reload.at = "powered_off",
                           !.last = [ addr |-> job.lcd, by |-> "reload", returned |-> FALSE ] ]
    /\ UNCHANGED <<drvVars, schedVars>>

(* initialize, line 693: self._lcd = Lcd(i2c_hw_addr=self._lcd_hw_address)   *)
ReloadNewDriver ==
    /\ job.fn = "reload"
    /\ job.reload.at = "powered_off"
    /\ job' = [ job EXCEPT !.lcd = job.lcd_hw_address,
                           !.reload = [ at |-> "initializing", left |-> InitTxs ] ]
    /\ UNCHANGED <<drvVars, schedVars>>

(* initialize, line 694: the transactions of write_initialization_sequence  *)
ReloadInitWrite ==
    /\ job.fn = "reload"
    /\ job.reload.at = "initializing"
    /\ job.reload.left > 0
    /\ job' = [ job EXCEPT !.reload.left = @ - 1,
                           !.last = [ addr |-> job.lcd, by |-> "reload", returned |-> FALSE ] ]
    /\ UNCHANGED <<drvVars, schedVars>>

(* load_from_dict returns after _reset_lcd_state (line 720) *)
ReloadReturn ==
    /\ job.fn = "reload"
    /\ job.reload.at = "initializing"
    /\ job.reload.left = 0
    /\ job' = [ job EXCEPT !.reload.at = "returned" ]
    /\ UNCHANGED <<drvVars, schedVars>>

NextReload ==
    \/ CallDriver
    \/ DriverWrite
    \/ ReloadPowerOff
    \/ ReloadNewDriver
    \/ ReloadInitWrite
    \/ ReloadReturn

SpecReload == InitReload /\ [][NextReload]_vars

----------------------------------------------------------------------------
(* SpecOwner: the scheduler, the producers and configuration reloads on a   *)
(* working bus, the clock standing still.                                     *)

(* LcdPlugin.initialize(load_settings=False) on a working bus, lines         *)
(* 693-694, for each of the two addresses                                     *)
initialize_default ==
    write_initialization_sequence(LcdNew(DefaultHwAddr, DefaultPixelWidth, DefaultPixelHeight),
                                  [ i \in 1..InitTxs |-> TRUE ])

initialize_new ==
    write_initialization_sequence(LcdNew(NewHwAddr, DefaultPixelWidth, DefaultPixelHeight),
                                  [ i \in 1..InitTxs |-> TRUE ])

initialize(lcd_hw_address) ==
    IF lcd_hw_address = DefaultHwAddr THEN initialize_default ELSE initialize_new

(* LcdPlugin.load_from_dict with allow_reinit, the whole call (lines         *)
(* 703-720): the settings hold an idle timeout and an address                 *)
load_from_dict(p, l, idle_timeout, i2c_hw_address, ok) ==
    LET p1 == [ p EXCEPT !.idle_timeout_seconds = idle_timeout ] IN
    IF i2c_hw_address \div 2 # l.hw_write_addr
    THEN LET off == set_power(l, FALSE, ok)
             new == initialize(i2c_hw_address)
         IN  [ plg |-> reset_lcd_state(p1), res |-> Res(new.lcd, TRUE, off.txs \o new.txs) ]
    ELSE [ plg |-> p1, res |-> Res(l, TRUE, << >>) ]

(* The settings page saves (line 1131): the idle timeout as it was, the one  *)
(* or the other address                                                       *)
LoadFromDict ==
    /\ \E idle_timeout \in { plugin.idle_timeout_seconds }, i2c_hw_address \in { DefaultHwAddr, NewHwAddr } :
           LET r == load_from_dict(plugin, lcd, idle_timeout, i2c_hw_address, TRUE) IN
           /\ Called(r.res.txs # << >>, "load_from_dict", r.res)
           /\ plugin' = r.plg
    /\ UNCHANGED <<hist, job, faulty, gv, now, run, stopper, signals, cond, ghost>>

InitOwner == InitCustom

NextOwner ==
    \/ RunStart
    \/ RunLoop
    \/ RunBranch
    \/ RunNormal
    \/ RunWhile
    \/ RunPop
    \/ RunCall
    \/ RunWake
    \/ RunIdleCheck
    \/ RunCheck
    \/ RunTimeout
    \/ RunReacquire
    \/ DisplaySignal
    \/ SignalNotify
    \/ WakeSignal
    \/ StopRunning
    \/ StopDisable
    \/ StopForcePowerOff
    \/ StopNotify
    \/ LoadFromDict

SpecOwner == InitOwner /\ [][NextOwner]_vars

----------------------------------------------------------------------------
(* SpecAfter: status ticks and one custom request on a working bus, begun   *)
(* under every host status of StatusHosts; the status changes to those of     *)
(* SchedHosts                                                                  *)
DisplaySignalOnce == DisplaySignalUpTo(1)

NextAfter ==
    \/ RunStart
    \/ RunLoop
    \/ RunBranch
    \/ RunNormal
    \/ RunWhile
    \/ RunPop
    \/ RunCall
    \/ RunWake
    \/ RunIdleCheck
    \/ RunCheck
    \/ RunTimeout
    \/ RunReacquire
    \/ DisplaySignalOnce
    \/ SignalNotify
    \/ HostChange(SchedHosts)

SpecAfter == InitStatus /\ [][NextAfter]_vars

----------------------------------------------------------------------------
(* SpecPower: the power calls of the scheduler thread (_wake_display and     *)
(* _display_idled, under _idle_lock), of a wake request's thread             *)
(* (_wake_display) and of stop() (Lcd.disable), on one driver.  A call of    *)
(* set_power or _force_power_off takes two steps: _write_control_byte, a     *)
(* whole under _write_lock, and the assignment to _power_state that follows  *)
(* the lock's release (lines 382-383 and 390-391).  job.th[t] is thread t's  *)
(* place, the state `on` it is writing and the status its write returned;    *)
(* job.idle_lock is the holder of _idle_lock.  Whether the idle timeout has   *)
(* expired when the scheduler looks is left open; no bus transaction raises.  *)

PowerThreads == { "sched", "wake", "stop" }

(* Where a thread is between two calls *)
Between(t) == CASE t = "sched" -> "loop" [] t = "wake" -> "call" [] t = "stop" -> "running"

InitPower ==
    /\ lcd = initialize_default.lcd
    /\ dev = DevApply(DevInit, initialize_default.txs)
    /\ bus = initialize_default.txs
    /\ ret = [ op |-> "initialize", status |-> TRUE ]
    /\ hist = [ track |-> FALSE, n |-> 0 ]
    /\ plugin = PluginNew(1)
    /\ gv = IdleHost
    /\ now = 0
    /\ run = RunNew
    /\ stopper = "idle"
    /\ signals = 0
    /\ cond = "free"
    /\ faulty = FALSE
    /\ ghost = GhostNew
    /\ job = [ fn |-> "power", idle_lock |-> "free",
               th |-> [ t \in PowerThreads |-> [ at |-> Between(t), on |-> FALSE, status |-> FALSE ] ] ]

(* run(), line 1053: the loop ends once _running is false *)
PowerLoopExit ==
    /\ job.fn = "power" /\ job.th["sched"].at = "loop" /\ ~plugin.running
    /\ job' = [ job EXCEPT !.th["sched"].at = "done" ]
    /\ UNCHANGED <<drvVars, schedVars>>

(* self._idle_lock.acquire(), lines 774 and 963 *)
IdleLockAcquire ==
    \E t \in { "sched", "wake" } :
        /\ job.fn = "power" /\ job.th[t].at = Between(t) /\ job.idle_lock = "free"
        /\ t = "sched" => plugin.running
        /\ job' = [ job EXCEPT !.idle_lock = t, !.th[t].at = "locked" ]
        /\ UNCHANGED <<drvVars, schedVars>>

(* _wake_display, lines 776-778: the time, and set_power(on=True) if idled *)
PowerWake ==
    \E t \in { "sched", "wake" } :
        /\ job.fn = "power" /\ job.th[t].at = "locked"
        /\ plugin' = [ plugin EXCEPT !.idle_entry_time = now ]
        /\ job' = [ job EXCEPT !.th[t].at = IF plugin.idled THEN "write" ELSE "release",
                               !.th[t].on = TRUE ]
        /\ UNCHANGED <<drvVars, gv, now, run, stopper, signals, cond, faulty, ghost>>

(* The idle check finds the timeout expired (lines 968-974); _display_idled, *)
(* lines 786-787                                                               *)
PowerIdle ==
    /\ job.fn = "power" /\ job.th["sched"].at = "locked"
    /\ ~plugin.idled /\ plugin.idle_entry_time # NoTime /\ plugin.idle_timeout_seconds > 0
    /\ plugin' = [ plugin EXCEPT !.idled = TRUE ]
    /\ job' = [ job EXCEPT !.th["sched"].at = "write", !.th["sched"].on = FALSE ]
    /\ UNCHANGED <<drvVars, gv, now, run, stopper, signals, cond, faulty, ghost>>

(* stop(), line 1070 *)
PowerStopRunning ==
    /\ job.fn = "power" /\ job.th["stop"].at = "running"
    /\ plugin' = [ plugin EXCEPT !.running = FALSE ]
    /\ job' = [ job EXCEPT !.th["stop"].at = "disable" ]
    /\ UNCHANGED <<drvVars, gv, now, run, stopper, signals, cond, faulty, ghost>>

(* Lcd.disable, lines 213-214 *)
PowerStopDisable ==
    /\ job.fn = "power" /\ job.th["stop"].at = "disable"
    /\ lcd' = [ lcd EXCEPT !.enabled = FALSE ]
    /\ job' = [ job EXCEPT !.th["stop"].at = IF lcd.enabled THEN "write" ELSE "done",
                           !.th["stop"].on = FALSE ]
    /\ UNCHANGED <<dev, bus, ret, hist, schedVars>>

(* set_power, line 381, and _force_power_off, line 389: _write_control_byte *)
PowerWrite ==
    \E t \in PowerThreads :
        LET r == write_control_byte(lcd, IF job.th[t].on THEN LCD_CONTROL_PWR_ON
                                                        ELSE LCD_CONTROL_PWR_OFF,
                                    t = "stop", TRUE)
        IN  /\ job.fn = "power" /\ job.th[t].at = "write"
            /\ lcd' = r.lcd
            /\ bus' = r.txs
            /\ dev' = DevApply(dev, r.txs)
            /\ job' = [ job EXCEPT !.th[t].at = "assign", !.th[t].status = r.status ]
            /\ UNCHANGED <<ret, hist, schedVars>>

(* set_power, lines 382-384, and _force_power_off, lines 390-392: the        *)
(* assignment and the return; _wake_display then clears _idled (line 779)    *)
PowerAssign ==
    \E t \in PowerThreads :
        /\ job.fn = "power" /\ job.th[t].at = "assign"
        /\ lcd' = IF job.th[t].status THEN [ lcd EXCEPT !.power_state = job.th[t].on ] ELSE lcd
        /\ ret' = [ op |-> IF t = "stop" THEN "force_power_off" ELSE "set_power",
                    status |-> job.th[t].status ]
        /\ plugin' = IF t # "stop" /\ job.th[t].on THEN [ plugin EXCEPT !.idled = FALSE ]
                     ELSE plugin
        /\ job' = [ job EXCEPT !.th[t].at = IF t = "stop" THEN "done" ELSE "release" ]
        /\ UNCHANGED <<dev, bus, hist, gv, now, run, stopper, signals, cond, faulty, ghost>>

(* self._idle_lock.release(), lines 781, 789 and 976 *)
IdleLockRelease ==
    \E t \in { "sched", "wake" } :
        /\ job.fn = "power" /\ job.th[t].at = "release"
        /\ job' = [ job EXCEPT !.idle_lock = "free", !.th[t].at = Between(t) ]
        /\ UNCHANGED <<drvVars, schedVars>>

NextPower ==
    \/ PowerLoopExit
    \/ IdleLockAcquire
    \/ PowerWake
    \/ PowerIdle
    \/ PowerStopRunning
    \/ PowerStopDisable
    \/ PowerWrite
    \/ PowerAssign
    \/ IdleLockRelease

SpecPower == InitPower /\ [][NextPower]_vars

----------------------------------------------------------------------------
(* SpecConfig: configuration reloads that change the bus address, beside    *)
(* the scheduler's status ticks and wake requests, on a working bus with the *)
(* clock; stop() is not called.  load_from_dict takes no lock, so its three  *)
(* calls (lines 718-720) are three steps; job is NoJob outside a reload and  *)
(* holds the reload's place and its address inside one.  dev is the device   *)
(* at the address of self._lcd.                                               *)

(* load_from_dict, lines 708-717: the settings hold another address *)
ConfigBegin ==
    /\ job = NoJob
    /\ \E i2c_hw_address \in { DefaultHwAddr, NewHwAddr } :
         /\ i2c_hw_address \div 2 # lcd.hw_write_addr
         /\ job' = [ fn |-> "config", at |-> "set_power", lcd_hw_address |-> i2c_hw_address ]
    /\ UNCHANGED <<drvVars, schedVars>>

(* line 718: self._lcd.set_power(on=False) *)
ConfigPowerOff ==
    /\ job.fn = "config" /\ job.at = "set_power"
    /\ Returns("set_power", set_power(lcd, FALSE, TRUE))
    /\ job' = [ job EXCEPT !.at = "initialize" ]
    /\ UNCHANGED <<hist, schedVars>>

(* line 719: initialize(load_settings=False), a new driver on the new address *)
ConfigInitialize ==
    /\ job.fn = "config" /\ job.at = "initialize"
    /\ lcd' = initialize(job.lcd_hw_address).lcd
    /\ bus' = initialize(job.lcd_hw_address).txs
    /\ dev' = DevApply(DevInit, initialize(job.lcd_hw_address).txs)
    /\ ret' = [ op |-> "initialize", status |-> TRUE ]
    /\ job' = [ job EXCEPT !.at = "reset_lcd_state" ]
    /\ UNCHANGED <<hist, schedVars>>

(* line 720: _reset_lcd_state(); load_from_dict returns *)
ConfigReset ==
    /\ job.fn = "config" /\ job.at = "reset_lcd_state"
    /\ plugin' = reset_lcd_state(plugin)
    /\ job' = NoJob
    /\ UNCHANGED <<drvVars, gv, now, run, stopper, signals, cond, faulty, ghost>>

InitConfig == InitSched /\ ~faulty

NextConfig ==
    \/ RunStart
    \/ RunLoop
    \/ RunBranch
    \/ RunNormal
    \/ RunCall
    \/ RunWake
    \/ RunIdleCheck
    \/ RunCheck
    \/ RunTimeout
    \/ RunReacquire
    \/ WakeSignal
    \/ Tick
    \/ ConfigBegin
    \/ ConfigPowerOff
    \/ ConfigInitialize
    \/ ConfigReset

SpecConfig == InitConfig /\ [][NextConfig]_vars

----------------------------------------------------------------------------
(* C2: in every reachable state of a driver instance the tracked cursor      *)
(* lies inside the active window and the active window inside the device     *)
(* geometry, whatever calls were made and whether their transactions          *)
(* succeeded.                                                                 *)
C2_CursorInsideWindow ==
    /\ lcd.min_col_addr <= lcd.gmin_col /\ lcd.gmin_col <= lcd.gmax_col
    /\ lcd.gmax_col <= lcd.max_col_addr
    /\ lcd.min_row_addr <= lcd.gmin_row /\ lcd.gmin_row <= lcd.gmax_row
    /\ lcd.gmax_row <= lcd.max_row_addr
    /\ lcd.gmin_col <= lcd.current_col /\ lcd.current_col <= lcd.gmax_col
    /\ lcd.gmin_row <= lcd.current_row /\ lcd.current_row <= lcd.gmax_row

(* C2's case: a multi-chunk data sequence, one of whose transactions failed, *)
(* moved the cursor in a window that is smaller than the screen.              *)
C2_Witness ==
    /\ ret.op = "write_data_sequence" /\ ret.status
    /\ Len(bus) > 1 /\ \E i \in 1..Len(bus) : ~bus[i].ok
    /\ lcd.gmin_col > 0 /\ lcd.gmin_row > 0

(* C3: after a successful set_window, n successful single data-byte writes   *)
(* leave the cursor n steps from (min_col, min_row) in row-major order:       *)
(* column min_col + (n mod W), row-band min_row + ((n div W) mod H).          *)
C3_CursorRowMajor ==
    hist.track =>
        LET W == lcd.gmax_col - lcd.gmin_col + 1
            H == lcd.gmax_row - lcd.gmin_row + 1
        IN  /\ lcd.current_col = lcd.gmin_col + (hist.n % W)
            /\ lcd.current_row = lcd.gmin_row + ((hist.n \div W) % H)

----------------------------------------------------------------------------
(* C1: whatever the interleaving of display_signal calls with the           *)
(* scheduler, the requests are taken one at a time in the order of their     *)
(* insertion: the queue always holds exactly the requests inserted and not   *)
(* yet taken, the oldest last, so none is lost, duplicated or overtaken;     *)
(* and the scheduler never pops an empty queue.                               *)
C1_QueueFifo ==
    LET q == plugin.custom_display_queue IN
    /\ Len(q) = ghost.enq - ghost.popped
    /\ \A i \in 1..Len(q) : q[i].id = ghost.enq - i + 1
    /\ run.pc = "pop" => q # << >>
    /\ run.pc # "raised"

(* C1's case: the second request has been taken, after the first, while a   *)
(* display_signal call was still between its insert and its notify.          *)
C1_Witness == ghost.popped = 2 /\ signals > 0 /\ run.pc = "exec"

(* C5: once stop() has returned nothing more reaches the device, and if no  *)
(* bus transaction has failed the last one it received is the forced         *)
(* power-off.                                                                 *)
C5_OffAfterStop ==
    /\ [](stopper = "done" /\ ~lcd.write_failure =>
            dev.last = "pwr_off" /\ dev.forced /\ dev.power = "off")
    /\ [][stopper = "done" => dev' = dev /\ (bus' = bus \/ bus' = << >>)]_vars

(* C5's case: stop() has returned on a working bus after the display had    *)
(* idled, and a wake request that came later found idled set and called      *)
(* set_power(on), which sent nothing.                                         *)
C5_Witness ==
    /\ stopper = "done" /\ ~lcd.write_failure
    /\ ret.op = "wake_signal" /\ bus = << >>
    /\ dev.last = "pwr_off"

(* C6: idled becomes true only in the idle check of a status tick, with the *)
(* display not idled, a timeout T > 0 and more than T seconds since           *)
(* idle_entry_time; with T = 0 idled is never true.                           *)
C6_IdledOnlyAfterTimeout ==
    /\ [][~plugin.idled /\ plugin'.idled =>
            /\ run.pc = "exec" /\ run.mode = "normal"
            /\ Head(run.todo).op = "idle_check"
            /\ plugin.idle_timeout_seconds > 0
            /\ plugin.idle_entry_time # NoTime
            /\ now - plugin.idle_entry_time > plugin.idle_timeout_seconds]_vars
    /\ [](plugin.idle_timeout_seconds = 0 => ~plugin.idled)

(* C6's case: the idle check has just idled the display and powered it off *)
C6_Witness ==
    /\ plugin.idled /\ ret.op = "idle_check"
    /\ Len(bus) = 1 /\ bus[1].what = "pwr_off" /\ bus[1].ok

(* C8: a wake request sets idle_entry_time to the current time; if idled is *)
(* set it calls set_power(on), which sends the power-on command unless the   *)
(* driver is disabled, and clears idled; it leaves last_write, last_sub_val, *)
(* displaying_custom, custom_display_canceled and the queue as they were.    *)
C8_WakeFrame ==
    [][WakeSignal =>
        /\ plugin'.idle_entry_time = now
        /\ ~plugin'.idled
        /\ plugin.idled =>
              /\ ret'.op = "wake_signal"
              /\ lcd.enabled => Len(bus') = 1 /\ bus'[1].what = "pwr_on"
        /\ ~plugin.idled => UNCHANGED <<lcd, dev, bus, ret>>
        /\ plugin'.last_write = plugin.last_write
        /\ plugin'.last_sub_val = plugin.last_sub_val
        /\ plugin'.displaying_custom = plugin.displaying_custom
        /\ plugin'.custom_display_canceled = plugin.custom_display_canceled
        /\ plugin'.custom_display_queue = plugin.custom_display_queue
        /\ plugin'.running = plugin.running
        /\ UNCHANGED run]_vars

(* C8's case: a wake request found the display idled while the scheduler    *)
(* was in a tick with a request still queued, and powered the display on.    *)
C8_Witness ==
    /\ ret.op = "wake_signal" /\ Len(bus) = 1 /\ bus[1].what = "pwr_on" /\ bus[1].ok
    /\ ~plugin.idled /\ plugin.idle_entry_time = now
    /\ run.pc = "exec" /\ plugin.custom_display_queue # << >>

(* C9: a status tick on the host status of the status tick before it, with  *)
(* no custom request in between, calls neither write_line nor write_block.   *)
C9_NoRewrite ==
    ghost.repeat =>
        \A i \in 1..Len(run.todo) : run.todo[i].op \notin { "write_line", "write_block" }

(* C9's case: the second of two status ticks on the same rain-delay status, *)
(* in its idle check.                                                         *)
C9_Witness ==
    /\ ghost.repeat /\ gv.rd /\ run.pc = "exec"
    /\ plugin.last_write = "RainDelay" /\ plugin.last_sub_val = "2"

(* C10: a tick takes one request from the queue: the scheduler waits, with  *)
(* the delay of the request it has shown, before it takes the next one,      *)
(* also when that one was already queued.                                     *)
C10_OneItemPerTick == ghost.tickPops <= 1

(* C4: once stop() has been called, the scheduler's loop exits and stop()   *)
(* returns, wherever the scheduler was and whatever the producers do.        *)
C4_StopTerminates == (stopper # "idle") ~> (stopper = "done" /\ run.pc = "done")

(* C4's case: stop() has returned and the loop has exited with a request    *)
(* still queued, whose producer has not yet notified.                        *)
C4_Witness ==
    /\ stopper = "done" /\ run.pc = "done"
    /\ plugin.custom_display_queue # << >> /\ signals > 0

(* C7: on a working bus, the idle check of a status tick that finds more    *)
(* than T > 0 seconds elapsed since idle_entry_time powers the display off;  *)
(* the display is off exactly while idled is set; it is powered on only by   *)
(* the _wake_display call that clears idled, in that call; and a wake        *)
(* request, a custom request shown, a status that is not idle and a changed  *)
(* main content each make that call in their tick.                            *)
C7_IdlePowerCycle ==
    /\ [][/\ run.pc = "exec" /\ Head(run.todo).op = "idle_check" /\ run' # run
          /\ ~plugin.idled /\ plugin.idle_timeout_seconds > 0
          /\ plugin.idle_entry_time # NoTime
          /\ now - plugin.idle_entry_time > plugin.idle_timeout_seconds
          => plugin'.idled /\ dev'.power = "off"]_vars
    /\ [](plugin.idled <=> dev.power = "off")
    /\ [][plugin.idled /\ ~plugin'.idled =>
            dev'.power = "on" /\ plugin'.idle_entry_time = now]_vars
    /\ [][dev.power = "off" /\ dev'.power = "on" =>
            /\ plugin.idled /\ ~plugin'.idled
            /\ ret'.op \in { "wake_signal", "wake_display" }]_vars
    /\ [][WakeSignal => ~plugin'.idled]_vars
    /\ [][run.pc = "pop" /\ run'.pc = "exec" =>
            \E i \in 1..Len(run'.todo) : run'.todo[i].op = "wake_display"]_vars
    /\ [][/\ run.pc = "normal" /\ run' # run
          /\ \/ prg_of(gv) # "Idle"
             \/ \E i \in 1..Len(run'.todo) : run'.todo[i].op = "last_write"
          => /\ run'.todo # << >>
             /\ Head(run'.todo).op = "wake_display"]_vars

(* C7's case: a status tick on a host status that is no longer idle has     *)
(* powered on the display that an idle check had powered off.                 *)
C7_Witness ==
    /\ ret.op = "wake_display" /\ Len(bus) = 1 /\ bus[1].what = "pwr_on"
    /\ run.mode = "normal" /\ prg_of(gv) # "Idle"
    /\ dev.power = "on" /\ ~plugin.idled

----------------------------------------------------------------------------
(* C11: taking a request whose cancel flag is set calls neither clear nor   *)
(* write_block, sets custom_display_canceled, and the wait that follows the  *)
(* tick has a delay of 0.                                                     *)
C11_CancelWaitsZero ==
    /\ run.pc = "cwhile" /\ ghost.tickCancel /\ ghost.popped = ghost.enq
        /\ plugin.custom_display_queue = << >> /\ plugin.custom_display_canceled
        => run.wait_time = 0 /\ run.todo = << >>
    /\ run.pc = "waiting" /\ ghost.tickCancel => run.wait_time = 0

(* C12: a request that is not a cancel is shown without clear() only if its *)
(* append flag is set, displaying_custom is set and custom_display_canceled  *)
(* is not; otherwise clear() is called before write_block.                    *)
C12_ClearUnlessAppend ==
    [][/\ run.pc = "pop" /\ run' # run
       /\ plugin.custom_display_queue # << >>
       /\ ~queue_pop(plugin.custom_display_queue).item.cancel
       => LET item == queue_pop(plugin.custom_display_queue).item
              keep == /\ item.append /\ plugin.displaying_custom
                      /\ ~plugin.custom_display_canceled
          IN  /\ run'.pc = "exec"
              /\ keep => Head(run'.todo).op = "write_block"
              /\ ~keep => /\ Head(run'.todo).op = "clear"
                          /\ run'.todo[2].op = "write_block"
              /\ \A i \in 3..Len(run'.todo) : run'.todo[i].op \notin DriverOps]_vars

(* C12's case: the third request, an append after a cancel on a screen that *)
(* shows custom content, was preceded by clear() and is being written.        *)
C12_Witness ==
    /\ ghost.popped = 3 /\ ret.op = "clear" /\ run.pc = "exec"
    /\ Head(run.todo).op = "write_block" /\ Head(run.todo).row_start = 2
    /\ plugin.displaying_custom /\ plugin.custom_display_canceled

----------------------------------------------------------------------------
(* C13: when write_block accepts a scale (the wrapping loop ends by its      *)
(* break, not by reaching min_text_size without one), no printed line holds *)
(* a word whose estimated width, 6 x characters x scale, is more than the    *)
(* device width; this for every word, the first one and the only one         *)
(* included.                                                                  *)
C13_NoWideWordWhenAccepted ==
    job.fn = "block" /\ job.done /\ job.out.kind = "block" /\ job.out.accepted
    => \A i \in 1..Len(job.out.lines) : \A k \in 1..Len(job.out.lines[i]) :
           6 * job.out.lines[i][k] * job.out.currentTextSize <= job.width

C15_BandsWrittenOnce ==
    job.fn = "block" /\ job.done /\ job.out.kind # "rejected"
    => LET o == job.out
           max_row == job.bands - 1
           last == Min(job.row_start + job.max_text_size - 1, max_row)
           writers(r) == { i \in 1..Len(o.calls) : r \in write_line_bands(max_row, o.calls[i]) }
       IN  /\ ~o.raised
           /\ Len(o.lines) <= job.max_text_size \div o.currentTextSize
           /\ \A r \in 0..max_row :
                  Cardinality(writers(r)) = IF job.row_start <= r /\ r <= last THEN 1 ELSE 0
           /\ o.printedCount =
                  Cardinality({ i \in 1..Len(o.calls) :
                                  /\ o.calls[i].text
                                  /\ write_line_status(max_row, o.calls[i].row_start) = 1 })

(* C16: write_line with centre justification and an odd adjustment of 2k+1   *)
(* columns: when the content is narrower than the window, k blank columns    *)
(* are added on the left and k+1 on the right; when it is wider, k columns   *)
(* are removed on the left and k+1 on the right.                              *)
C16_CenterOddSplit ==
    /\ job.fn = "line" /\ job.done /\ job.out.status = 1
    /\ job.justification = JUSTIFY_CENTER
    => LET s == job.text_size_multiplier
           content == char_rows(IF Len(job.str) <= 0 THEN << 32 >> ELSE job.str, s)
           R == Len(content[1])
           W == job.width
           d == IF R < W THEN W - R ELSE R - W
           k == d \div 2
       IN  d % 2 = 1 =>
               \A i \in 1..Len(job.out.seqs) :
                   job.out.seqs[i] =
                       IF R < W THEN zeros(k) \o content[i] \o zeros(k + 1)
                       ELSE SubSeq(content[i], k + 1, R - (k + 1))

(* The letter A centred at scale 1 in a window three columns wider *)
C16_Witness ==
    /\ job.fn = "line" /\ job.done /\ job.out.status = 1
    /\ job.justification = JUSTIFY_CENTER /\ job.str = << 65 >>
    /\ job.text_size_multiplier = 1 /\ job.width = 9
    /\ job.out.seqs = << << 0, 126, 17, 17, 17, 126, 0, 0, 0 >> >>

(* C16 as the claim has it: when padding, k+1 blank columns on the left and  *)
(* k on the right                                                             *)
C16_CenterOddLeft ==
    /\ job.fn = "line" /\ job.done /\ job.out.status = 1
    /\ job.justification = JUSTIFY_CENTER
    => LET s == job.text_size_multiplier
           content == char_rows(IF Len(job.str) <= 0 THEN << 32 >> ELSE job.str, s)
           R == Len(content[1])
           W == job.width
           d == IF R < W THEN W - R ELSE R - W
           k == d \div 2
       IN  d % 2 = 1 =>
               \A i \in 1..Len(job.out.seqs) :
                   job.out.seqs[i] =
                       IF R < W THEN zeros(k + 1) \o content[i] \o zeros(k)
                       ELSE SubSeq(content[i], k + 1, R - (k + 1))

(* C17: for a row_start inside the device, write_line passes exactly         *)
(* min(scale, max_row - row_start + 1) sequences to _write_data_sequence,    *)
(* each as long as the device is wide (W); with left justification each is   *)
(* the first W columns of the rendered content, padded with zero columns on  *)
(* the right only; with right justification the last W columns, padded on    *)
(* the left only; and when the rendered width is W the content is written    *)
(* as it is, whatever the justification.                                      *)
C17_LineSequences ==
    /\ job.fn = "line" /\ job.done
    /\ 0 <= job.row_start /\ job.row_start <= job.bands - 1
    => LET s == job.text_size_multiplier
           content == char_rows(IF Len(job.str) <= 0 THEN << 32 >> ELSE job.str, s)
           R == Len(content[1])
           W == job.width
           seqs == job.out.seqs
       IN  /\ job.out.status = 1
           /\ Len(seqs) = Min(s, (job.bands - 1) - job.row_start + 1)
           /\ \A i \in 1..Len(seqs) :
                  /\ Len(seqs[i]) = W
                  /\ job.justification = JUSTIFY_LEFT
                     => seqs[i] = IF R >= W THEN SubSeq(content[i], 1, W)
                                  ELSE content[i] \o zeros(W - R)
                  /\ job.justification = JUSTIFY_RIGHT
                     => seqs[i] = IF R >= W THEN SubSeq(content[i], R - W + 1, R)
                                  ELSE zeros(W - R) \o content[i]
                  /\ R = W => seqs[i] = content[i]

(* The letter A at scale 2 on the last row-band of a device 5 columns wide,  *)
(* left-justified: one sequence, the first five columns of the upper half    *)
C17_Witness ==
    /\ job.fn = "line" /\ job.done /\ job.out.status = 1
    /\ job.justification = JUSTIFY_LEFT /\ job.str = << 65 >>
    /\ job.text_size_multiplier = 2 /\ job.width = 5
    /\ job.bands = 2 /\ job.row_start = 1
    /\ Len(job.out.seqs) = 1
    /\ job.out.seqs[1] = SubSeq(generate_char_sequence(65, 2)[1], 1, 5)
    /\ job.out.seqs[1][1] # 0

(* C18: for every character and every scale s of 1..8 the font renderer      *)
(* returns s row-band sequences of 6*s bytes each; the pixel at column x and *)
(* pixel row y (byte x of band y \div 8, bit y % 8) is set exactly when the  *)
(* glyph's pixel at column x \div s, row y \div s is set, the glyph's sixth  *)
(* column being blank; a character outside 0x20..0x7F has the fallback glyph. *)
C18_GlyphScaled ==
    job.fn = "char" /\ job.done
    => LET s == job.text_size_multiplier
           glyph == IF job.char >= 32 /\ job.char <= 127
                    THEN LCD_ASCII[job.char - 31] ELSE char_other
           source(c, r) == IF c < 5 THEN Bit(glyph[c + 1], r) ELSE 0
       IN  /\ Len(job.out) = s
           /\ \A b \in 1..Len(job.out) : Len(job.out[b]) = 6 * s
           /\ \A x \in 0..(6 * s - 1) : \A y \in 0..(8 * s - 1) :
                  Bit(job.out[y \div 8 + 1][x + 1], y % 8) = source(x \div s, y \div s)

(* The fallback glyph at scale 8: its seven rows fill the upper seven bands, *)
(* the eighth band and the spacer columns are blank                           *)
C18_Witness ==
    /\ job.fn = "char" /\ job.done
    /\ job.char = 128 /\ job.text_size_multiplier = 8
    /\ job.out[1][1] = 255 /\ job.out[7][40] = 255
    /\ job.out[8][1] = 0 /\ job.out[1][41] = 0

C20_ClearCoversScreen ==
    /\ job.fn = "clear" /\ job.done /\ job.lcd.enabled
    /\ \A i \in 1..Len(job.oks) : job.oks[i]
    => LET txs == job.out.txs
           width == job.lcd.max_col_addr - job.lcd.min_col_addr + 1
           bands == job.lcd.max_row_addr - job.lcd.min_row_addr + 1
           bytes == UNION { {i} \X (1..txs[i].n) : i \in 2..Len(txs) }
       IN  /\ Len(txs) >= 1 /\ txs[1].cmd = CONTROL_BYTE /\ txs[1].what = "window"
           /\ job.out.lcd.gmin_col = job.lcd.min_col_addr
           /\ job.out.lcd.gmax_col = job.lcd.max_col_addr
           /\ job.out.lcd.gmin_row = job.lcd.min_row_addr
           /\ job.out.lcd.gmax_row = job.lcd.max_row_addr
           /\ \A i \in 2..Len(txs) : txs[i].cmd = DATA_BYTE /\ txs[i].n <= 32
           /\ Cardinality(bytes) >= width * bands

----------------------------------------------------------------------------
(* C21: once disable() has been called, a non-forced control byte, a data   *)
(* byte, a control or data sequence and set_power return failure, put no     *)
(* transaction on the bus and leave the cursor and the recorded power state  *)
(* as they were; only the forced power-off still reaches the bus; the first  *)
(* disable() issues one forced power-off and a second disable() issues none. *)
C21_DisabledGate ==
    /\ ~job.before.enabled =>
         /\ ~lcd.enabled
         /\ ret.op \in { "write_control_byte", "write_data_byte", "write_sequence", "set_power" } =>
              /\ ret.status = FALSE
              /\ bus = << >>
              /\ lcd.current_col = job.before.current_col
              /\ lcd.current_row = job.before.current_row
              /\ lcd.power_state = job.before.power_state
         /\ ret.op = "disable" => bus = << >> /\ lcd = job.before
         /\ bus # << >> =>
              /\ ret.op = "force_power_off"
              /\ Len(bus) = 1 /\ bus[1].force /\ bus[1].what = "pwr_off"
    /\ job.before.enabled /\ ret.op = "disable" =>
         /\ ~lcd.enabled
         /\ Len(bus) = 1 /\ bus[1].force /\ bus[1].what = "pwr_off"

(* A second disable() returned, after a first one whose power-off failed *)
C21_Witness ==
    /\ ~job.before.enabled
    /\ ret.op = "disable"
    /\ bus = << >>
    /\ lcd.power_state
    /\ dev.power = "off"

----------------------------------------------------------------------------
(* C22: over any order of control-byte, data-byte and sequence writes on    *)
(* one driver, every call returns a status whether its transactions raise   *)
(* or not; the failure message is printed once at most, by the first         *)
(* transaction that fails and by no later one; _write_failure is set from    *)
(* that transaction on and never cleared; and a single-byte write whose      *)
(* transaction fails returns False.                                           *)
C22_FailureLoggedOnce ==
    /\ ret.status \in BOOLEAN
    /\ job.logs = IF job.failed THEN 1 ELSE 0
    /\ lcd.write_failure = job.failed
    /\ job.before.write_failure => lcd.write_failure
    /\ \A i \in 1..Len(bus) :
         bus[i].logged <=> /\ ~bus[i].ok
                           /\ ~job.before.write_failure
                           /\ \A j \in 1..(i - 1) : bus[j].ok
    /\ /\ ret.op \in { "write_control_byte", "write_data_byte", "set_power", "force_power_off" }
       /\ \E i \in 1..Len(bus) : ~bus[i].ok
       => ret.status = FALSE

(* Two chunks of one sequence failed on a driver that had failed before:     *)
(* nothing was printed this time                                              *)
C22_Witness ==
    /\ ret.op = "write_sequence"
    /\ job.before.write_failure
    /\ Len(bus) >= 2
    /\ \A i \in 1..Len(bus) : ~bus[i].ok /\ ~bus[i].logged
    /\ job.logs = 1

----------------------------------------------------------------------------
(* C23: a call with invalid arguments puts no transaction on the bus and    *)
(* changes nothing of the driver: set_window whose coordinates are not       *)
(* 0 <= min_col <= max_col <= max column or not 0 <= min_row <= max_row <=   *)
(* max row-band returns False; write_line whose row_start is outside the     *)
(* device's row-bands returns 0; write_block with min_text_size >            *)
(* max_text_size or a scale <= 0 returns 0.                                   *)
C23_InvalidArgsRejected ==
    LET a == job.args
        b == job.before
    IN  /\ /\ ret.op = "set_window"
           /\ ~ (/\ 0 <= a[1] /\ a[1] <= a[2] /\ a[2] <= b.max_col_addr
                 /\ 0 <= a[3] /\ a[3] <= a[4] /\ a[4] <= b.max_row_addr)
           => ret.status = FALSE /\ bus = << >> /\ lcd = b
        /\ /\ ret.op = "write_line"
           /\ a[1] < b.min_row_addr \/ a[1] > b.max_row_addr
           => ret.status = 0 /\ bus = << >> /\ lcd = b
        /\ /\ ret.op = "write_block"
           /\ a[2] > a[3] \/ a[2] <= 0 \/ a[3] <= 0
           => ret.status = 0 /\ bus = << >> /\ lcd = b

(* set_window with max_row < min_row was refused on a driver whose window   *)
(* is smaller than the screen                                                 *)
C23_Witness ==
    /\ ret.op = "set_window"
    /\ job.args[3] > job.args[4]
    /\ job.args[1] <= job.args[2]
    /\ ret.status = FALSE
    /\ lcd.gmin_col > 0
    /\ lcd.enabled

----------------------------------------------------------------------------
(* C24: when set_window is called with valid coordinates and its bus        *)
(* transaction fails, or the driver is disabled and makes none, it returns   *)
(* False and the tracked window and cursor are the ones before the call.     *)
C24_FailedWindowKeepsState ==
    LET a == job.args
        b == job.before
    IN  /\ ret.op = "set_window"
        /\ 0 <= a[1] /\ a[1] <= a[2] /\ a[2] <= b.max_col_addr
        /\ 0 <= a[3] /\ a[3] <= a[4] /\ a[4] <= b.max_row_addr
        /\ bus = << >> \/ ~bus[1].ok
        => /\ ret.status = FALSE
           /\ lcd.gmin_col = b.gmin_col /\ lcd.gmax_col = b.gmax_col
           /\ lcd.gmin_row = b.gmin_row /\ lcd.gmax_row = b.gmax_row
           /\ lcd.current_col = b.current_col /\ lcd.current_row = b.current_row

----------------------------------------------------------------------------
(* C25: on one driver instance no two bus transactions are in progress at   *)
(* once, a thread inside a transaction holds _write_lock, and the chunks of  *)
(* one _write_sequence call are consecutive on the bus, in order: no         *)
(* transaction of another thread (the wake power-on, the forced power-off)   *)
(* or of another call lies between two of them.                              *)
C25_WritesSerialized ==
    job.fn = "lock" =>
        /\ Cardinality(job.open) <= 1
        /\ \A t \in job.open : job.write_lock = t
        /\ \A i \in 1..Len(job.trace), j \in 1..Len(job.trace) :
             /\ i < j
             /\ job.trace[i].thread = job.trace[j].thread
             /\ job.trace[i].k = job.trace[j].k
             => \A m \in i..j : /\ job.trace[m].thread = job.trace[i].thread
                                /\ job.trace[m].k = job.trace[i].k
                                /\ job.trace[m].chunk = job.trace[i].chunk + (m - i)

(* The scheduler thread is inside the second chunk of its sequence while    *)
(* the wake and the stop threads wait for the lock                           *)
C25_Witness ==
    /\ job.fn = "lock"
    /\ job.th["sched"].k = 1
    /\ job.th["sched"].i = 1
    /\ job.th["sched"].at = "in_write"
    /\ job.th["wake"].at = "acquire"
    /\ job.th["stop"].at = "acquire"
    /\ ~job.enabled

----------------------------------------------------------------------------
(* C26: once a load_from_dict that changed the bus address has returned, no *)
(* bus transaction goes to the old address, whatever the scheduler thread    *)
(* and the wake requests were doing during the reload.                       *)
C26_OldAddressSilent ==
    job.fn = "reload" /\ job.last.returned => job.last.addr = NewHwAddr

----------------------------------------------------------------------------
(* C27: a producer never has to wait for the scheduler's condition: a       *)
(* display_signal that has inserted its item and a stop() that has disabled  *)
(* the driver can take their next step, the notify, at once, and a wake      *)
(* request can always run, also while the scheduler thread is inside a tick. *)
C27_ProducersNeverWait ==
    /\ signals > 0 => ENABLED SignalNotify
    /\ stopper = "notify" => ENABLED StopNotify
    /\ ENABLED WakeSignal

----------------------------------------------------------------------------
(* C28: a step of a producer (display_signal, wake_signal, stop(), the      *)
(* configuration reload) does not write last_write or last_sub_val, nor the  *)
(* driver's window or cursor, nor data to the device: of the plugin it       *)
(* changes the queue, the wake timestamp and the running flag only.          *)
C28_SchedulerOwnsDisplay ==
    [][ \/ DisplaySignal \/ SignalNotify \/ WakeSignal \/ LoadFromDict
        \/ StopRunning \/ StopDisable \/ StopForcePowerOff \/ StopNotify
        => /\ plugin' = [ plugin EXCEPT !.custom_display_queue = plugin'.custom_display_queue,
                                        !.idle_entry_time = plugin'.idle_entry_time,
                                        !.running = plugin'.running ]
           /\ lcd'.gmin_col = lcd.gmin_col /\ lcd'.gmax_col = lcd.gmax_col
           /\ lcd'.gmin_row = lcd.gmin_row /\ lcd'.gmax_row = lcd.gmax_row
           /\ lcd'.current_col = lcd.current_col /\ lcd'.current_row = lcd.current_row
           /\ bus' # bus => \A i \in 1..Len(bus') : bus'[i].cmd # DATA_BYTE ]_vars

----------------------------------------------------------------------------
(* C29, as stated: a status tick that writes to the device, be it the main  *)
(* content or the sub-value only, calls _wake_display, which sets            *)
(* idle_entry_time to the time of the call.                                  *)
C29_AnyWriteRefreshesIdle ==
    [][ /\ RunNormal
           => ((\E i \in 1..Len(run'.todo) : run'.todo[i].op \in DriverOps)
               => \E j \in 1..Len(run'.todo) : run'.todo[j].op = "wake_display")
        /\ RunWake => plugin'.idle_entry_time = now ]_vars

(* C29, amended: a status tick calls _wake_display, before its first write, *)
(* when it writes the main content, when the program label is not Idle       *)
(* (then whether it writes or not) and when custom content was shown; a tick *)
(* under the label Idle that writes nothing or the sub-value only (clock,    *)
(* rain-delay hours) does not call it; a call of _wake_display sets          *)
(* idle_entry_time to the time of the call.                                  *)
C29_MainWriteRefreshesIdle ==
    [][ /\ RunNormal
           => LET todo  == run'.todo
                  wakes == { j \in 1..Len(todo) : todo[j].op = "wake_display" }
                  calls == { i \in 1..Len(todo) : todo[i].op \in DriverOps }
                  main  == \E i \in 1..Len(todo) : todo[i].op = "last_write"
                  on    == prg_of(gv) # "Idle"
              IN  /\ main \/ on \/ plugin.displaying_custom
                       => /\ wakes # { }
                          /\ \A i \in calls : \E j \in wakes : j < i
                  /\ ~main /\ ~on /\ ~plugin.displaying_custom => wakes = { }
        /\ RunWake => plugin'.idle_entry_time = now ]_vars

(* A tick under the label Idle is about to write the sub-value only, and    *)
(* does not wake                                                              *)
C29_Witness ==
    /\ run.mode = "normal"
    /\ run.pc = "exec"
    /\ Head(run.todo).op = "write_line"
    /\ Head(run.todo).row_start = 6
    /\ prg_of(gv) = "Idle"
    /\ \A i \in 1..Len(run.todo) : run.todo[i].op \notin { "wake_display", "last_write" }
    /\ plugin.idle_entry_time # NoTime

----------------------------------------------------------------------------
(* C30: the status tick that follows custom content empties last_write and  *)
(* last_sub_val, clears displaying_custom and custom_display_canceled,       *)
(* wakes the display first and then, whatever the host status and whatever   *)
(* was shown before the custom content, makes driver calls whose windows     *)
(* cover every row-band of the screen, each over the full width.             *)
C30_FullRedrawAfterCustom ==
    [][ RunNormal /\ plugin.displaying_custom
        => LET todo  == run'.todo
               calls == { i \in 1..Len(todo) : todo[i].op \in DriverOps }
               done(i) == call(lcd, todo[i], [ k \in 1..call_txs(lcd, todo[i]) |-> TRUE ]).lcd
           IN  /\ ~plugin'.displaying_custom
               /\ ~plugin'.custom_display_canceled
               /\ plugin'.last_write = "" /\ plugin'.last_sub_val = ""
               /\ todo # << >> /\ todo[1].op = "wake_display"
               /\ UNION { done(i).gmin_row..done(i).gmax_row : i \in calls }
                    = lcd.min_row_addr..lcd.max_row_addr
               /\ \A i \in calls : /\ todo[i].op # "clear"
                                   /\ done(i).gmin_col = lcd.min_col_addr
                                   /\ done(i).gmax_col = lcd.max_col_addr
               /\ \E i \in 1..Len(todo) : todo[i].op = "last_write" ]_vars

(* The tick after a custom text has woken the display, has emptied the      *)
(* caches and is about to write the lines of the status Idle                  *)
C30_Witness ==
    /\ ghost.popped = 1
    /\ run.mode = "normal"
    /\ run.pc = "exec"
    /\ Head(run.todo).op = "write_line"
    /\ Len(run.todo) >= 5
    /\ gv = IdleHost
    /\ plugin.last_write = ""
    /\ ~plugin.displaying_custom
    /\ plugin.idle_entry_time # NoTime
    /\ lcd.max_row_addr = 7

(* C31: once a custom text that was not cancelled is on the screen with a   *)
(* delay above 0, the status path runs only after the wait of that delay     *)
(* has timed out, unless stop was requested: when a notification has ended   *)
(* the wait early and the queue is empty at line 1055, the loop does not      *)
(* enter _display_normal.                                                      *)
C31_DelayNotCutShort ==
    [][ ( /\ RunBranch
          /\ ghost.early
          /\ plugin.running
          /\ plugin.displaying_custom
          /\ ~plugin.custom_display_canceled )
        => run'.mode # "normal" ]_vars

(* C32: _write_sequence returns True only if the transaction of every chunk *)
(* of the sequence succeeded: a call on an enabled driver one of whose        *)
(* chunks raised (the first, one in the middle or the last) returns False.    *)
C32_TrueOnlyIfAllChunks ==
    job.fn = "seq" /\ job.done
    => /\ job.out.status => \A i \in 1..Len(job.out.txs) : job.out.txs[i].ok
       /\ ( job.lcd.enabled /\ \E i \in 1..Len(job.oks) : ~job.oks[i] ) => ~job.out.status

(* C33: whenever no thread is inside set_power or _force_power_off,         *)
(* is_powered() is the last power command the device received; once stop()  *)
(* has returned and the scheduler thread has ended, is_powered() is false.  *)
C33_PowerStateMatchesDevice ==
    job.fn = "power" /\ (\A t \in PowerThreads : job.th[t].at \notin { "write", "assign" })
    => /\ lcd.power_state = (dev.power = "on")
       /\ job.th["stop"].at = "done" /\ job.th["sched"].at = "done" => ~lcd.power_state

(* C34: while no bus transaction has failed, stop() has not been called and *)
(* no thread is inside a wake, an idle-entry or a configuration reload       *)
(* (each wake and idle entry is one step; job is NoJob outside a reload),    *)
(* _idled is set exactly when the last power command the current device      *)
(* received was power-off.                                                    *)
C34_IdledAgreesWithDevice ==
    ( job = NoJob /\ stopper = "idle" /\ ~lcd.write_failure /\ lcd.enabled )
    => ( plugin.idled <=> dev.power = "off" )

====
